---------------------------- MODULE Spec2Model ----------------------------
(***************************************************************************)
(* WrdHntr backend: one game session of the in-memory registry `games`,   *)
(* its socket handlers (join-game, start-game, submit-word, disconnect),   *)
(* the round timer and the periodic cleanup, together with the pure game   *)
(* logic (validateWord, canFormWord, scoring) the handlers call.           *)
(*                                                                         *)
(* Node runs every handler to completion on one event loop, and no handler *)
(* awaits: each handler is one atomic action.                              *)
(*                                                                         *)
(* Strings the code inspects character by character (submitted words, the  *)
(* letters of the bag) are sequences of one-character strings.  A JS Map   *)
(* is a sequence of entries in insertion order, each carrying its key.     *)
(***************************************************************************)
EXTENDS Integers, Sequences, FiniteSets, TLC

(***************************************************************************)
(* Bounds of the model.                                                    *)
(***************************************************************************)
\* Transport connections (socket ids) that ever connect, in Spec.
MaxSockets == 2
\* Transport connections that ever connect, in SpecLobby.
LobbySockets == 4
\* options.gameDuration of the modelled session, in seconds.
GameDuration == 1
\* Accepted claims after which the model sends no further submission.
MaxClaims == 2
\* Submissions in flight at one moment in the specification of the race.
MaxPending == 2

(***************************************************************************)
(* Program constants.                                                      *)
(***************************************************************************)
MAX_PLAYERS_PER_ROOM == 20
\* options.minWordLength || 3
DefaultMinWordLength == 3
\* The literal 60 of calculateFreeForAllScore.
ScoreWindow == 60
\* The length above which calculateFreeForAllScore adds its bonus.
BonusLength == 6
LengthBonus == 5
\* setInterval(..., 1000) of startGameTimer.
TickMs == 1000
\* The 1000 of Math.floor((Date.now() - game.startTime) / 1000).
MsPerSecond == 1000
\* OLD_GAME_THRESHOLD = 30 * 60 * 1000
OLD_GAME_THRESHOLD == 30 * 60 * 1000

NULL == "null"

\* The id of the modelled session, one outcome of generateGameId, and the id
\* of a second session.
SessionId == "ABC234"
OtherId == "ABC235"
SocketIds == <<"s1", "s2", "s3", "s4", "s5", "s6">>
SocketIndex(s) == CHOOSE i \in 1..Len(SocketIds) : SocketIds[i] = s

\* Display names the clients send: in Spec, and in SpecLobby.
PlayerNames == {"Alva", "Bo"}
LobbyNames == {"Alva", "alva", "Bo", "Cy"}

\* String.prototype.toLowerCase on the display names of the model.
toLowerCase(name) ==
    CASE name = "Alva" -> "alva"
      [] name = "alva" -> "alva"
      [] name = "Bo" -> "bo"
      [] name = "Cy" -> "cy"
      [] OTHER -> name

(***************************************************************************)
(* Words.                                                                  *)
(***************************************************************************)
\* String.prototype.toUpperCase, one character.
UpperChar(c) ==
    CASE c = "a" -> "A"
      [] c = "e" -> "E"
      [] c = "t" -> "T"
      [] c = "d" -> "D"
      [] OTHER -> c

toUpperCase(w) == [i \in 1..Len(w) |-> UpperChar(w[i])]

RECURSIVE trimStart(_)
trimStart(w) ==
    IF w # <<>> /\ Head(w) = " " THEN trimStart(Tail(w)) ELSE w

RECURSIVE trimEnd(_)
trimEnd(w) ==
    IF w # <<>> /\ w[Len(w)] = " " THEN trimEnd(SubSeq(w, 1, Len(w) - 1)) ELSE w

\* String.prototype.trim
trim(w) == trimEnd(trimStart(w))

\* The built-in fallback list of loadWordList.
wordList ==
    { <<"O","C","H">>, <<"A","T","T">>, <<"D","E","T">>, <<"S","O","M">>,
      <<"H","A","R">>, <<"M","E","D">>, <<"V","A","R">>, <<"E","T","T">>,
      <<"F","Ö","R">>, <<"P","Å">> }

\* The raw words clients submit.
RawWords ==
    { <<"A","T","T">>, <<"a","t","t">>, <<" ","E","T","T"," ">>,
      <<"T","A","T">>, <<"H","A","R">>, <<"P","Å">>, <<" ">> }

\* indexOf: the first position of c in pool, 0 when absent (JS -1).
RECURSIVE indexOfFrom(_, _, _)
indexOfFrom(pool, c, i) ==
    IF i > Len(pool) THEN 0
    ELSE IF pool[i] = c THEN i
    ELSE indexOfFrom(pool, c, i + 1)

indexOf(pool, c) == indexOfFrom(pool, c, 1)

\* splice(index, 1)
splice1(pool, i) == SubSeq(pool, 1, i - 1) \o SubSeq(pool, i + 1, Len(pool))

RECURSIVE canFormFrom(_, _)
canFormFrom(word, letterPool) ==
    IF word = <<>> THEN TRUE
    ELSE LET index == indexOf(letterPool, Head(word))
         IN  IF index = 0 THEN FALSE
             ELSE canFormFrom(Tail(word), splice1(letterPool, index))

\* Faulty variant of canFormWord: a letter found is not taken from the pool.
canFormWordNoSplice(word, availableLetters) ==
    \A i \in 1..Len(word) : indexOf(availableLetters, UpperChar(word[i])) # 0

canFormWord(word, availableLetters) ==
    canFormFrom(toUpperCase(word), availableLetters)

\* The letters left in the pool after the letters of word found in it, in
\* turn, were spliced out (up to the first letter that is not found).
RECURSIVE spliceFound(_, _)
spliceFound(word, letterPool) ==
    IF word = <<>> THEN letterPool
    ELSE LET index == indexOf(letterPool, Head(word))
         IN  IF index = 0 THEN letterPool
             ELSE spliceFound(Tail(word), splice1(letterPool, index))

\* Faulty variant of lettersAfterCanFormWord: the splices act on the
\* caller's array.
lettersAfterCanFormWordInPlace(word, availableLetters) ==
    spliceFound(toUpperCase(word), availableLetters)

\* The caller's array after canFormWord(word, availableLetters) returned:
\* letterPool is a copy, [...availableLetters], and the splices act on it.
lettersAfterCanFormWord(word, availableLetters) == availableLetters

isValidSwedishWord(word) == toUpperCase(word) \in wordList

ErrEmpty == "Tomt ord"
ErrTooShort == "Ordet måste vara minst N bokstäver"
ErrLetters == "Ogiltiga bokstäver"
ErrNotWord == "Inte ett giltigt svenskt ord"

\* Faulty variant of validateWord: the letters are checked before the length.
validateWordLettersFirst(word, availableLetters, minLength) ==
    LET upperWord == trim(toUpperCase(word))
    IN  IF upperWord = <<>> THEN [valid |-> FALSE, error |-> ErrEmpty]
        ELSE IF ~canFormWord(upperWord, availableLetters)
             THEN [valid |-> FALSE, error |-> ErrLetters]
        ELSE IF Len(upperWord) < minLength
             THEN [valid |-> FALSE, error |-> ErrTooShort]
        ELSE IF ~isValidSwedishWord(upperWord)
             THEN [valid |-> FALSE, error |-> ErrNotWord]
        ELSE [valid |-> TRUE, error |-> ""]

validateWord(word, availableLetters, minLength) ==
    LET upperWord == trim(toUpperCase(word))
    IN  IF upperWord = <<>> THEN [valid |-> FALSE, error |-> ErrEmpty]
        ELSE IF Len(upperWord) < minLength
             THEN [valid |-> FALSE, error |-> ErrTooShort]
        ELSE IF ~canFormWord(upperWord, availableLetters)
             THEN [valid |-> FALSE, error |-> ErrLetters]
        ELSE IF ~isValidSwedishWord(upperWord)
             THEN [valid |-> FALSE, error |-> ErrNotWord]
        ELSE [valid |-> TRUE, error |-> ""]

\* The caller's array after validateWord returned: canFormWord is reached
\* by a word that is not empty and not too short.
lettersAfterValidateWord(word, availableLetters, minLength) ==
    LET upperWord == trim(toUpperCase(word))
    IN  IF upperWord = <<>> \/ Len(upperWord) < minLength
        THEN availableLetters
        ELSE lettersAfterCanFormWord(upperWord, availableLetters)

\* The Swedish alphabet in the order of localeCompare(_, 'sv').
svAlphabet ==
    << "A", "B", "C", "D", "E", "F", "G", "H", "I", "J", "K", "L", "M", "N",
       "O", "P", "Q", "R", "S", "T", "U", "V", "W", "X", "Y", "Z", "Å", "Ä",
       "Ö" >>

svIndex(c) == CHOOSE i \in 1..Len(svAlphabet) : svAlphabet[i] = c

\* a.localeCompare(b, 'sv') on words of the list: negative, zero, positive.
RECURSIVE localeCompare(_, _)
localeCompare(a, b) ==
    IF a = <<>> /\ b = <<>> THEN 0
    ELSE IF a = <<>> THEN -1
    ELSE IF b = <<>> THEN 1
    ELSE IF svIndex(Head(a)) < svIndex(Head(b)) THEN -1
    ELSE IF svIndex(Head(a)) > svIndex(Head(b)) THEN 1
    ELSE localeCompare(Tail(a), Tail(b))

\* Faulty variant of sortsBefore: the shorter word goes first.
sortsBeforeShortFirst(a, b) ==
    IF Len(b) # Len(a) THEN Len(a) - Len(b) < 0
    ELSE localeCompare(a, b) < 0

\* The comparator of findPossibleWords puts a before b.
sortsBefore(a, b) ==
    IF Len(b) # Len(a) THEN Len(b) - Len(a) < 0
    ELSE localeCompare(a, b) < 0

\* Array.prototype.sort with that comparator, on distinct words.
RECURSIVE sortWords(_)
sortWords(words) ==
    IF words = {} THEN <<>>
    ELSE LET first == CHOOSE w \in words :
                         \A v \in words \ {w} : sortsBefore(w, v)
         IN  <<first>> \o sortWords(words \ {first})

\* Faulty variant of findPossibleWords: words of the minimum length are
\* left out.
findPossibleWordsLonger(availableLetters, minLength) ==
    sortWords({word \in wordList :
                  Len(word) > minLength /\ canFormWord(word, availableLetters)})

findPossibleWords(availableLetters, minLength) ==
    sortWords({word \in wordList :
                  Len(word) >= minLength /\ canFormWord(word, availableLetters)})

\* The caller's array after findPossibleWords went through words.
RECURSIVE lettersAfterFindPossibleWords(_, _, _)
lettersAfterFindPossibleWords(words, availableLetters, minLength) ==
    IF words = {} THEN availableLetters
    ELSE LET word == CHOOSE w \in words : TRUE
         IN  lettersAfterFindPossibleWords(words \ {word},
                 IF Len(word) >= minLength
                 THEN lettersAfterCanFormWord(word, availableLetters)
                 ELSE availableLetters,
                 minLength)

\* SWEDISH_LETTERS
SWEDISH_LETTERS ==
    [vowels |-> {"A", "E", "I", "O", "U", "Y", "Å", "Ä", "Ö"},
     consonants |-> {"B", "C", "D", "F", "G", "H", "J", "K", "L", "M", "N",
                     "P", "R", "S", "T", "V", "X", "Z"},
     commonConsonants |-> {"N", "R", "S", "T", "L", "D", "G", "M", "K"},
     commonVowels |-> {"A", "E", "I", "O"}]

\* The letters the random draws of the model come out as.
DrawnLetters == {"A", "E", "T", "R"}

\* generateLetters(count): every array the draws and the shuffle can give.
\* Math.floor(count * 0.35) is floor(35 * count / 100) for the counts in use.
generateLetters(count) ==
    LET vowelCount == (count * 35) \div 100
        consonantCount == count - vowelCount
        vowelDraws == (SWEDISH_LETTERS.commonVowels
                         \cup SWEDISH_LETTERS.vowels) \cap DrawnLetters
        consonantDraws == (SWEDISH_LETTERS.commonConsonants
                             \cup SWEDISH_LETTERS.consonants) \cap DrawnLetters
    IN  {ls \in [1..count -> vowelDraws \cup consonantDraws] :
            /\ Cardinality({i \in 1..count : ls[i] \in vowelDraws}) = vowelCount
            /\ Cardinality({i \in 1..count : ls[i] \in consonantDraws})
                  = consonantCount}

Max(a, b) == IF a >= b THEN a ELSE b

\* Faulty variant of calculateFreeForAllScore: the time bonus is not kept
\* from going below zero.
calculateFreeForAllScoreNoFloor(word, secondsElapsed) ==
    LET wordLength == Len(word)
        timeBonus == ScoreWindow - secondsElapsed
    IN  wordLength * timeBonus
          + (IF wordLength > BonusLength THEN LengthBonus ELSE 0)

\* Faulty variant of calculateFreeForAllScore: the bonus starts at the
\* bonus length itself.
calculateFreeForAllScoreBonusAtSix(word, secondsElapsed) ==
    LET wordLength == Len(word)
        timeBonus == Max(0, ScoreWindow - secondsElapsed)
    IN  wordLength * timeBonus
          + (IF wordLength >= BonusLength THEN LengthBonus ELSE 0)

\* Math.round of an integer is that integer.
calculateFreeForAllScore(word, secondsElapsed) ==
    LET wordLength == Len(word)
        timeBonus == Max(0, ScoreWindow - secondsElapsed)
    IN  wordLength * timeBonus
          + (IF wordLength > BonusLength THEN LengthBonus ELSE 0)

calculateExclusiveScore(word) == Len(word)


(***************************************************************************)
(* JS Map: a sequence of entries [key, ...] in insertion order.            *)
(***************************************************************************)
MapKeys(m) == {m[i].key : i \in 1..Len(m)}

MapHas(m, k) == k \in MapKeys(m)

MapIndex(m, k) == CHOOSE i \in 1..Len(m) : m[i].key = k

MapGet(m, k) == m[MapIndex(m, k)]

\* Map.prototype.delete: the entry leaves the iteration order.
MapDelete(m, k) ==
    IF MapHas(m, k)
    THEN LET i == MapIndex(m, k)
         IN  SubSeq(m, 1, i - 1) \o SubSeq(m, i + 1, Len(m))
    ELSE m

\* Map.prototype.set: an existing key keeps its place, a new key goes last.
MapSet(m, e) ==
    IF MapHas(m, e.key)
    THEN [m EXCEPT ![MapIndex(m, e.key)] = e]
    ELSE Append(m, e)

\* socket.data.playerName of a connection that joined once, under the name
\* of its entry; unset for a connection with no entry.
joinedName(table, s) ==
    IF MapHas(table, s) THEN MapGet(table, s).name ELSE NULL

(***************************************************************************)
(* State.                                                                  *)
(***************************************************************************)
VARIABLES
    registered,     \* games.has(id): the session is in the registry
    mode,           \* game.mode
    letters,        \* game.letters
    letterCount,    \* game.letterCount
    hostId,         \* game.hostId
    players,        \* game.players: Map<socketId, {id, name, score, connected}>
    claims,         \* game.claims: Map<key, {playerId, playerName, timestamp, score, word?}>
    playerClaims,   \* game.playerClaims: Map<playerId, Set<word>>
    status,         \* game.status
    startTime,      \* game.startTime, ms; 0 is null
    timerInterval,  \* game.timerInterval is set
    now,            \* Date.now(), ms
    sockState,      \* per socket: "new" | "open" | "closed"
    sockGame,       \* sockets that joined the session: socket.data.gameId
                    \* is its id unless the socket is in sockOther
    names,          \* the display names the clients of the run send
    otherGames,     \* games: the ids of the other sessions in the registry
    otherPlayers,   \* game.players of the session OtherId
    otherHost,      \* game.hostId of the session OtherId
    sockOther,      \* sockets whose socket.data.gameId is OtherId
    sockName,       \* socket.data.playerName of each socket
    ack,            \* the last handler run and the response it gave
    pending,        \* submit-word messages sent and not yet handled
    delivered,      \* the responses to the messages handled from pending
    joinOrder       \* history: display names in the order they first joined

vars == <<registered, mode, letters, letterCount, hostId, players, claims,
          playerClaims, status, startTime, timerInterval, now, sockState,
          sockGame, names, otherGames, otherPlayers, otherHost, sockOther,
          sockName, ack, pending, delivered, joinOrder>>

gameVars == <<mode, letters, letterCount, hostId, players, claims,
              playerClaims, status, startTime, timerInterval>>

\* The letters generateLetters(6) returned for the modelled session:
\* floor(6 * 0.35) = 2 vowels and 4 consonants, shuffled.
SessionLetters == <<"T", "A", "T", "E", "R", "S">>

minWordLength == DefaultMinWordLength
duration == GameDuration

\* Date.now() when the session is created.
T0 == MsPerSecond

NoResponse == [success |-> TRUE]
Reject(e) == [success |-> FALSE, error |-> e]

ErrNotFound == "Spelet hittades inte"
ErrEnded == "Spelet är avslutat"
ErrFull == "Spelet är fullt"
ErrNameTaken == "Namnet är redan taget"
ErrNotHost == "Endast värden kan starta spelet"
ErrStarted == "Spelet har redan startat"
ErrNoPlayers == "Minst en spelare behövs"
ErrNotActive == "Spelet är inte aktivt"
ErrClaimed == "Ordet är redan taget!"
ErrUsed == "Du har redan använt detta ord!"

\* createGame(options), options.mode given, then games.set(id, game).
Init ==
    /\ registered = TRUE
    /\ mode \in {"freeforall", "exclusive"}
    /\ letters = SessionLetters
    /\ letterCount = Len(SessionLetters)
    /\ hostId = NULL
    /\ players = <<>>
    /\ claims = <<>>
    /\ playerClaims = <<>>
    /\ status = "waiting"
    /\ startTime = 0
    /\ timerInterval = FALSE
    /\ now = T0
    /\ sockState = [s \in {SocketIds[i] : i \in 1..MaxSockets} |-> "new"]
    /\ sockGame = {}
    /\ names = PlayerNames
    /\ otherGames = {}
    /\ otherPlayers = <<>>
    /\ otherHost = NULL
    /\ sockOther = {}
    /\ sockName = [s \in DOMAIN sockState |-> joinedName(players, s)]
    /\ ack = [op |-> "create", res |-> NoResponse]
    /\ pending = {}
    /\ delivered = <<>>
    /\ joinOrder = <<>>

\* Math.floor((Date.now() - game.startTime) / 1000)
Elapsed == (now - startTime) \div MsPerSecond

(***************************************************************************)
(* submitWord(game, playerId, word): the response and the fields written.  *)
(***************************************************************************)
Unchanged(res) ==
    [res |-> res, claims |-> claims, playerClaims |-> playerClaims,
     players |-> players]

\* Faulty variant of AddScore: the score is not added.
AddScoreForgotten(playerId, score) == players

AddScore(playerId, score) ==
    [players EXCEPT ![MapIndex(players, playerId)].score = @ + score]

\* Faulty variant of submitExclusive: no check that the word is free.
submitExclusiveUnchecked(playerId, upperWord) ==
    LET player == MapGet(players, playerId)
        score == calculateExclusiveScore(upperWord)
    IN  [res |-> [success |-> TRUE, word |-> upperWord, score |-> score,
                  totalScore |-> player.score + score],
         claims |-> MapSet(claims,
             [key |-> upperWord, playerId |-> playerId,
              playerName |-> player.name, timestamp |-> Elapsed,
              score |-> score, word |-> <<>>]),
         playerClaims |-> playerClaims,
         players |-> AddScore(playerId, score)]

\* Faulty variant of submitExclusive: the score is added before the check
\* that the word is free.
submitExclusiveScoredFirst(playerId, upperWord) ==
    LET player == MapGet(players, playerId)
        score == calculateExclusiveScore(upperWord)
    IN  IF MapHas(claims, upperWord)
        THEN [Unchanged(Reject(ErrClaimed)) EXCEPT
                 !.players = AddScore(playerId, score)]
        ELSE [res |-> [success |-> TRUE, word |-> upperWord, score |-> score,
                       totalScore |-> player.score + score],
              claims |-> MapSet(claims,
                  [key |-> upperWord, playerId |-> playerId,
                   playerName |-> player.name, timestamp |-> Elapsed,
                   score |-> score, word |-> <<>>]),
              playerClaims |-> playerClaims,
              players |-> AddScore(playerId, score)]

submitExclusive(playerId, upperWord) ==
    IF MapHas(claims, upperWord) THEN Unchanged(Reject(ErrClaimed))
    ELSE LET player == MapGet(players, playerId)
             score == calculateExclusiveScore(upperWord)
         IN  [res |-> [success |-> TRUE, word |-> upperWord, score |-> score,
                       totalScore |-> player.score + score],
              claims |-> MapSet(claims,
                  [key |-> upperWord, playerId |-> playerId,
                   playerName |-> player.name, timestamp |-> Elapsed,
                   score |-> score, word |-> <<>>]),
              playerClaims |-> playerClaims,
              players |-> AddScore(playerId, score)]

\* `${upperWord}-${playerId}`
claimKey(upperWord, playerId) == upperWord \o <<"-", playerId>>

\* Faulty variant of submitFreeForAll: a word any player holds is refused.
submitFreeForAllShared(playerId, upperWord) ==
    IF \E i \in 1..Len(claims) : claims[i].word = upperWord
    THEN Unchanged(Reject(ErrUsed))
    ELSE LET player == MapGet(players, playerId)
             score == calculateFreeForAllScore(upperWord, Elapsed)
         IN  [res |-> [success |-> TRUE, word |-> upperWord,
                       score |-> score,
                       totalScore |-> player.score + score],
              claims |-> MapSet(claims,
                  [key |-> claimKey(upperWord, playerId),
                   playerId |-> playerId, playerName |-> player.name,
                   timestamp |-> Elapsed, score |-> score,
                   word |-> upperWord]),
              playerClaims |-> playerClaims,
              players |-> AddScore(playerId, score)]

submitFreeForAll(playerId, upperWord) ==
    LET withSet == IF MapHas(playerClaims, playerId) THEN playerClaims
                   ELSE MapSet(playerClaims, [key |-> playerId, words |-> {}])
        used == MapGet(withSet, playerId).words
    IN  IF upperWord \in used
        THEN [Unchanged(Reject(ErrUsed)) EXCEPT !.playerClaims = withSet]
        ELSE LET player == MapGet(players, playerId)
                 score == calculateFreeForAllScore(upperWord, Elapsed)
             IN  [res |-> [success |-> TRUE, word |-> upperWord,
                           score |-> score,
                           totalScore |-> player.score + score],
                  claims |-> MapSet(claims,
                      [key |-> claimKey(upperWord, playerId),
                       playerId |-> playerId, playerName |-> player.name,
                       timestamp |-> Elapsed, score |-> score,
                       word |-> upperWord]),
                  playerClaims |-> MapSet(withSet,
                      [key |-> playerId, words |-> used \cup {upperWord}]),
                  players |-> AddScore(playerId, score)]

\* Faulty variant of submitWord: the word is trimmed and not uppercased.
submitWordNotUppercased(playerId, word) ==
    IF ~MapHas(players, playerId) \/ status # "playing"
    THEN Unchanged(Reject(ErrNotActive))
    ELSE LET upperWord == trim(word)
             validation == validateWord(upperWord, letters, minWordLength)
         IN  IF ~validation.valid THEN Unchanged(Reject(validation.error))
             ELSE IF mode = "exclusive"
                  THEN submitExclusive(playerId, upperWord)
                  ELSE submitFreeForAll(playerId, upperWord)

\* Faulty variant of submitWord: the status is not checked.
submitWordAnyStatus(playerId, word) ==
    IF ~MapHas(players, playerId)
    THEN Unchanged(Reject(ErrNotActive))
    ELSE LET upperWord == trim(toUpperCase(word))
             validation == validateWord(upperWord, letters, minWordLength)
         IN  IF ~validation.valid THEN Unchanged(Reject(validation.error))
             ELSE IF mode = "exclusive"
                  THEN submitExclusive(playerId, upperWord)
                  ELSE submitFreeForAll(playerId, upperWord)

submitWord(playerId, word) ==
    IF ~MapHas(players, playerId) \/ status # "playing"
    THEN Unchanged(Reject(ErrNotActive))
    ELSE LET upperWord == trim(toUpperCase(word))
             validation == validateWord(upperWord, letters, minWordLength)
         IN  IF ~validation.valid THEN Unchanged(Reject(validation.error))
             ELSE IF mode = "exclusive"
                  THEN submitExclusive(playerId, upperWord)
                  ELSE submitFreeForAll(playerId, upperWord)

\* The socket ids of the run.
Sockets == DOMAIN sockState

\* socket.data.gameId: the session the socket joined last.
gameIdOf(s) ==
    IF s \in sockOther THEN OtherId
    ELSE IF s \in sockGame THEN SessionId
    ELSE NULL

(***************************************************************************)
(* Handlers.                                                               *)
(***************************************************************************)
\* io.on('connection').  Socket ids are fresh and interchangeable: they
\* connect in SocketIds order, each once the earlier ones have joined the
\* session or closed (a connection that has not joined has no part in it).
Connect(s) ==
    /\ sockState[s] = "new"
    /\ \A t \in DOMAIN sockState :
          SocketIndex(t) < SocketIndex(s) =>
              \/ sockState[t] = "closed"
              \/ sockState[t] = "open" /\ t \in sockGame
    /\ sockState' = [sockState EXCEPT ![s] = "open"]
    /\ ack' = [op |-> "connect", res |-> NoResponse]
    /\ UNCHANGED <<registered, gameVars, now, sockGame, names, otherGames, otherPlayers, otherHost,
                   sockOther, sockName,
                   pending, delivered, joinOrder>>

\* Faulty variant of nameTaken: the names are compared as they are written.
nameTakenExact(playerName) ==
    \E i \in 1..Len(players) :
        /\ players[i].name = playerName
        /\ players[i].connected

\* The name check of join-game: a connected player has the name, ignoring case.
nameTaken(playerName) ==
    \E i \in 1..Len(players) :
        /\ toLowerCase(players[i].name) = toLowerCase(playerName)
        /\ players[i].connected

\* The positions of the disconnected entries carrying exactly this name.
reconnectable(playerName) ==
    {i \in 1..Len(players) :
        players[i].name = playerName /\ ~players[i].connected}

Min(S) == CHOOSE x \in S : \A y \in S : x <= y

Maximum(S) == CHOOSE x \in S : \A y \in S : x >= y

\* Faulty variant of joinPlayers: every join adds a new entry.
joinPlayersFresh(s, playerName) ==
    MapSet(players, [key |-> s, id |-> s, name |-> playerName,
                     score |-> 0, connected |-> TRUE])

\* The reconnection loop and the new-player branch of join-game.
joinPlayers(s, playerName) ==
    IF reconnectable(playerName) # {}
    THEN LET i == Min(reconnectable(playerName))
             player == players[i]
         IN  MapSet(MapDelete(players, player.key),
                    [player EXCEPT !.key = s, !.connected = TRUE])
    ELSE MapSet(players, [key |-> s, id |-> s, name |-> playerName,
                          score |-> 0, connected |-> TRUE])

\* claim.word || word
ClaimWord(c) == IF c.word # <<>> THEN c.word ELSE c.key

\* The placeholder getGameState shows for a letter of a waiting session.
Masked == "?"

\* The claims of a snapshot: in free-for-all with forPlayerId given, the
\* entries whose playerId is forPlayerId; otherwise every entry.
snapshotClaims(forPlayerId) ==
    LET shown == IF mode = "freeforall" /\ forPlayerId # NULL
                 THEN SelectSeq(claims, LAMBDA c : c.playerId = forPlayerId)
                 ELSE claims
    IN  [i \in 1..Len(shown) |->
            [word |-> IF mode = "freeforall" /\ forPlayerId # NULL
                      THEN shown[i].word ELSE ClaimWord(shown[i]),
             playerId |-> shown[i].playerId,
             playerName |-> shown[i].playerName,
             timestamp |-> shown[i].timestamp,
             score |-> shown[i].score]]

\* Faulty variant of getGameState: the letters are shown in every status.
getGameStateUnmasked(forPlayerId, host, table) ==
    [mode |-> mode,
     letters |-> letters,
     letterCount |-> letterCount,
     minWordLength |-> minWordLength,
     hostId |-> host,
     players |-> [i \in 1..Len(table) |->
                     [id |-> table[i].key, name |-> table[i].name,
                      score |-> table[i].score,
                      connected |-> table[i].connected]],
     claims |-> snapshotClaims(forPlayerId),
     status |-> status,
     startTime |-> startTime,
     timeRemaining |-> IF startTime # 0 THEN Max(0, duration - Elapsed)
                       ELSE duration]

\* getGameState(game, forPlayerId) of a session whose host and player table
\* are host and table (those the calling handler has just written).
getGameState(forPlayerId, host, table) ==
    [mode |-> mode,
     letters |-> IF status = "waiting"
                 THEN [i \in 1..Len(letters) |-> Masked]
                 ELSE letters,
     letterCount |-> letterCount,
     minWordLength |-> minWordLength,
     hostId |-> host,
     players |-> [i \in 1..Len(table) |->
                     [id |-> table[i].key, name |-> table[i].name,
                      score |-> table[i].score,
                      connected |-> table[i].connected]],
     claims |-> snapshotClaims(forPlayerId),
     status |-> status,
     startTime |-> startTime,
     timeRemaining |-> IF startTime # 0 THEN Max(0, duration - Elapsed)
                       ELSE duration]

\* The join callback: success, gameState and isHost.
JoinOk(s, host, table) ==
    [success |-> TRUE, gameState |-> getGameState(s, host, table),
     isHost |-> (s = host)]

\* Faulty variant of roomFull: one entry more is let in.
roomFullAbove == Len(players) > MAX_PLAYERS_PER_ROOM

\* game.players.size >= MAX_PLAYERS_PER_ROOM
roomFull == Len(players) >= MAX_PLAYERS_PER_ROOM

\* Faulty variant of joinClosed: a player who left is let back in after the
\* round.
joinClosedToStrangers(playerName) ==
    status = "ended" /\ reconnectable(playerName) = {}

\* game.status === 'ended', checked before the name is looked at.
joinClosed(playerName) == status = "ended"

\* socket.on('join-game')
JoinGame(s, playerName) ==
    /\ sockState[s] = "open"
    /\ IF ~registered
       THEN /\ ack' = [op |-> "join", res |-> Reject(ErrNotFound)]
            /\ UNCHANGED <<gameVars, sockGame, sockOther, sockName,
                           joinOrder>>
       ELSE IF joinClosed(playerName)
       THEN /\ ack' = [op |-> "join", res |-> Reject(ErrEnded)]
            /\ UNCHANGED <<gameVars, sockGame, sockOther, sockName,
                           joinOrder>>
       ELSE IF roomFull
       THEN /\ ack' = [op |-> "join", res |-> Reject(ErrFull)]
            /\ UNCHANGED <<gameVars, sockGame, sockOther, sockName,
                           joinOrder>>
       ELSE IF MapHas(players, s)
       THEN /\ sockGame' = sockGame \cup {s}
            /\ sockOther' = sockOther \ {s}
            /\ sockName' = [sockName EXCEPT ![s] = playerName]
            /\ ack' = [op |-> "join", res |-> JoinOk(s, hostId, players)]
            /\ UNCHANGED <<gameVars, joinOrder>>
       ELSE IF nameTaken(playerName)
       THEN /\ ack' = [op |-> "join", res |-> Reject(ErrNameTaken)]
            /\ UNCHANGED <<gameVars, sockGame, sockOther, sockName,
                           joinOrder>>
       ELSE /\ players' = joinPlayers(s, playerName)
            /\ hostId' = IF hostId = NULL THEN s ELSE hostId
            /\ sockGame' = sockGame \cup {s}
            /\ sockOther' = sockOther \ {s}
            /\ sockName' = [sockName EXCEPT ![s] = playerName]
            /\ joinOrder' = IF reconnectable(playerName) # {} THEN joinOrder
                            ELSE Append(joinOrder, playerName)
            /\ ack' = [op |-> "join", res |-> JoinOk(s, hostId', players')]
            /\ UNCHANGED <<mode, letters, letterCount, claims, playerClaims,
                           status,
                           startTime, timerInterval>>
    /\ UNCHANGED <<registered, now, sockState, names, otherGames, otherPlayers,
                   otherHost, pending, delivered>>

\* Faulty variant of startGameResponse: a round that is not running may start.
startGameResponseRestart(s) ==
    IF ~(gameIdOf(s) = SessionId /\ registered) THEN Reject(ErrNotFound)
    ELSE IF s # hostId THEN Reject(ErrNotHost)
    ELSE IF status = "playing" THEN Reject(ErrStarted)
    ELSE IF Len(players) < 1 THEN Reject(ErrNoPlayers)
    ELSE NoResponse

\* Faulty variant of startGameResponse: the requester need not be the host.
startGameResponseAnyone(s) ==
    IF ~(gameIdOf(s) = SessionId /\ registered) THEN Reject(ErrNotFound)
    ELSE IF status # "waiting" THEN Reject(ErrStarted)
    ELSE IF Len(players) < 1 THEN Reject(ErrNoPlayers)
    ELSE NoResponse

\* The checks of socket.on('start-game'), in the handler's order.
startGameResponse(s) ==
    IF ~(gameIdOf(s) = SessionId /\ registered) THEN Reject(ErrNotFound)
    ELSE IF s # hostId THEN Reject(ErrNotHost)
    ELSE IF status # "waiting" THEN Reject(ErrStarted)
    ELSE IF Len(players) < 1 THEN Reject(ErrNoPlayers)
    ELSE NoResponse

\* socket.on('start-game'), with startGameTimer on success.
StartGame(s) ==
    /\ sockState[s] = "open"
    /\ ack' = [op |-> "start", res |-> startGameResponse(s)]
    /\ IF startGameResponse(s).success
       THEN /\ startTime' = now
            /\ status' = "playing"
            /\ timerInterval' = TRUE
       ELSE UNCHANGED <<startTime, status, timerInterval>>
    /\ UNCHANGED <<registered, mode, letters, letterCount, hostId, players,
                   claims, playerClaims, now, sockState, sockGame, names, otherGames, otherPlayers, otherHost,
                   sockOther, sockName, pending,
                   delivered, joinOrder>>

\* game.letters after submitWord returned.
lettersAfterSubmitWord(playerId, word) ==
    IF ~MapHas(players, playerId) \/ status # "playing" THEN letters
    ELSE lettersAfterValidateWord(trim(toUpperCase(word)), letters,
                                  minWordLength)

\* game.letters after the submit-word handler returned.
lettersAfterSubmit(s, word) ==
    IF ~(gameIdOf(s) = SessionId /\ registered) THEN letters
    ELSE lettersAfterSubmitWord(s, word)

\* socket.on('submit-word'): the response and the session after it.
handleSubmit(s, word) ==
    IF ~(gameIdOf(s) = SessionId /\ registered)
    THEN Unchanged(Reject(ErrNotFound))
    ELSE submitWord(s, word)

\* The connections in the session's Socket.IO room: socket.join puts a
\* connection in, its disconnect takes it out.
room == {t \in sockGame : sockState[t] = "open"}

\* claimData of submit-word; playerName is read from socket.data.
claimData(s, out) ==
    [word |-> out.res.word,
     playerId |-> s,
     playerName |-> sockName[s],
     score |-> out.res.score,
     timestamp |-> Elapsed,
     players |-> [i \in 1..Len(out.players) |->
                     [id |-> out.players[i].key,
                      name |-> out.players[i].name,
                      score |-> out.players[i].score]]]

\* Faulty variant of submitEvents: the claim goes to the room in both modes.
submitEventsBroadcast(s, out) ==
    IF ~out.res.success THEN [wordClaimed |-> {}, scoresUpdated |-> {}]
    ELSE [wordClaimed |-> {[to |-> t, data |-> claimData(s, out)] :
                              t \in room},
          scoresUpdated |-> {}]

\* The events submit-word emits for the outcome of submitWord: word-claimed
\* and scores-updated, each as the set of (receiver, payload).
submitEvents(s, out) ==
    IF ~out.res.success THEN [wordClaimed |-> {}, scoresUpdated |-> {}]
    ELSE IF mode = "exclusive"
    THEN [wordClaimed |-> {[to |-> t, data |-> claimData(s, out)] :
                              t \in room},
          scoresUpdated |-> {}]
    ELSE [wordClaimed |-> {[to |-> s, data |-> claimData(s, out)]},
          scoresUpdated |->
              {[to |-> t,
                data |-> [players |-> claimData(s, out).players]] :
                  t \in room \ {s}}]

\* The model sends an acceptable submission only below MaxClaims claims.
WithinClaims(out) == out.res.success => Len(claims) < MaxClaims

SubmitWord(s, word) ==
    /\ sockState[s] = "open"
    /\ LET out == handleSubmit(s, word)
       IN  /\ WithinClaims(out)
           /\ claims' = out.claims
           /\ playerClaims' = out.playerClaims
           /\ players' = out.players
           /\ ack' = [op |-> "submit", res |-> out.res,
                      events |-> submitEvents(s, out)]
    /\ letters' = lettersAfterSubmit(s, word)
    /\ UNCHANGED <<registered, mode, letterCount, hostId, status, startTime,
                   timerInterval, now, sockState, sockGame,
                   names, otherGames, otherPlayers, otherHost,
                   sockOther, sockName, pending, delivered, joinOrder>>

\* Faulty variant of transferHost: the last connected entry.
transferHostLast(s, table) ==
    LET connected == {i \in 1..Len(table) : table[i].connected}
    IN  IF s = hostId /\ connected # {} THEN table[Maximum(connected)].key
        ELSE hostId

\* The host transfer of the disconnect handler: the first connected entry.
transferHost(s, table) ==
    LET connected == {i \in 1..Len(table) : table[i].connected}
    IN  IF s = hostId /\ connected # {} THEN table[Min(connected)].key
        ELSE hostId

\* The host transfer of the disconnect handler, in the session OtherId.
transferOtherHost(s, table) ==
    LET connected == {i \in 1..Len(table) : table[i].connected}
    IN  IF s = otherHost /\ connected # {} THEN table[Min(connected)].key
        ELSE otherHost

\* socket.on('disconnect'): for the session of socket.data.gameId; the socket
\* and its data are gone afterwards.
Disconnect(s) ==
    /\ sockState[s] = "open"
    /\ sockState' = [sockState EXCEPT ![s] = "closed"]
    /\ IF gameIdOf(s) = SessionId /\ registered /\ MapHas(players, s)
       THEN /\ players' = [players EXCEPT
                              ![MapIndex(players, s)].connected = FALSE]
            /\ hostId' = transferHost(s, players')
            /\ UNCHANGED <<otherPlayers, otherHost>>
       ELSE IF /\ gameIdOf(s) = OtherId
               /\ OtherId \in otherGames
               /\ MapHas(otherPlayers, s)
       THEN /\ otherPlayers' = [otherPlayers EXCEPT
                         ![MapIndex(otherPlayers, s)].connected = FALSE]
            /\ otherHost' = transferOtherHost(s, otherPlayers')
            /\ UNCHANGED <<players, hostId>>
       ELSE UNCHANGED <<players, hostId, otherPlayers, otherHost>>
    /\ sockName' = [sockName EXCEPT ![s] = NULL]
    /\ ack' = [op |-> "disconnect", res |-> NoResponse]
    /\ UNCHANGED <<registered, mode, letters, letterCount, claims,
                   playerClaims, status,
                   startTime, timerInterval, now, sockGame,
                   names, otherGames, sockOther, pending, delivered,
                   joinOrder>>

\* socket.on('get-game-state')
GetGameState(s) ==
    /\ sockState[s] = "open"
    /\ ack' = [op |-> "state",
               res |-> IF ~registered THEN Reject(ErrNotFound)
                       ELSE [success |-> TRUE,
                             gameState |-> getGameState(NULL, hostId,
                                                        players)]]
    /\ UNCHANGED <<registered, gameVars, now, sockState, sockGame, names, otherGames, otherPlayers, otherHost,
                   sockOther, sockName,
                   pending, delivered, joinOrder>>

(***************************************************************************)
(* The round timer, the clock and the cleanup.                             *)
(***************************************************************************)
\* The positions of the entries with the highest score.
highestScored(entries) ==
    {i \in 1..Len(entries) : \A j \in 1..Len(entries) :
                                entries[i].score >= entries[j].score}

\* Faulty variant of sortByScore: of equal scores the later entry goes first.
RECURSIVE sortByScoreLastFirst(_)
sortByScoreLastFirst(entries) ==
    IF entries = <<>> THEN <<>>
    ELSE LET i == Maximum(highestScored(entries))
         IN  <<entries[i]>> \o sortByScoreLastFirst(
                 SubSeq(entries, 1, i - 1) \o SubSeq(entries, i + 1, Len(entries)))

\* Array.prototype.sort((a, b) => b.score - a.score): a stable sort, entries
\* of equal score keep the order they came in.
RECURSIVE sortByScore(_)
sortByScore(entries) ==
    IF entries = <<>> THEN <<>>
    ELSE LET i == Min(highestScored(entries))
         IN  <<entries[i]>> \o sortByScore(
                 SubSeq(entries, 1, i - 1) \o SubSeq(entries, i + 1, Len(entries)))

\* The rankings of endGame.
rankings ==
    sortByScore([i \in 1..Len(players) |->
                    [id |-> players[i].key, name |-> players[i].name,
                     score |-> players[i].score]])

\* Faulty variant of gameEnded: the claims are filtered as for the host.
gameEndedFiltered ==
    [success |-> TRUE,
     rankings |-> rankings,
     claims |-> snapshotClaims(hostId),
     gameInfo |-> [mode |-> mode, letters |-> letters,
                   minWordLength |-> minWordLength],
     possibleWords |-> findPossibleWords(letters, minWordLength)]

\* The game-ended event of endGame.
gameEnded ==
    [success |-> TRUE,
     rankings |-> rankings,
     claims |-> snapshotClaims(NULL),
     gameInfo |-> [mode |-> mode, letters |-> letters,
                   minWordLength |-> minWordLength],
     possibleWords |-> findPossibleWords(letters, minWordLength)]

\* Faulty variant of remainingTime: the last second is never counted down.
remainingTimeAboveZero == Max(1, duration - Elapsed)

\* remaining of the interval callback: Math.max(0, game.duration - elapsed)
remainingTime == Max(0, duration - Elapsed)

\* Faulty variant of endGameTimerInterval: the interval is left scheduled.
endGameTimerIntervalKept == timerInterval

\* The interval after endGame: cleared, and game.timerInterval null.
endGameTimerInterval == FALSE

\* The setInterval callback of startGameTimer, with endGame when time is up.
\* The moments the callback runs at are not fixed by the model: it may run
\* whenever the interval is set, early or late.
TimerTick ==
    /\ timerInterval
    /\ LET remaining == remainingTime
       IN  IF remaining <= 0
           THEN /\ timerInterval' = endGameTimerInterval
                /\ status' = "ended"
                /\ letters' = lettersAfterFindPossibleWords(wordList,
                                   letters, minWordLength)
                /\ ack' = [op |-> "tick", res |-> gameEnded]
           ELSE /\ UNCHANGED <<timerInterval, status, letters>>
                /\ ack' = [op |-> "tick", res |-> NoResponse]
    /\ UNCHANGED <<registered, mode, letterCount, hostId, players, claims,
                   playerClaims, startTime, now, sockState, sockGame,
                   names, otherGames, otherPlayers, otherHost,
                   sockOther, sockName, pending, delivered, joinOrder>>

\* Date.now() moves on.  The clock is read only as a difference from
\* startTime, so it stands still until the round starts; during the round
\* it moves by one second up to one second past the duration, and after the
\* round by one jump over the cleanup threshold.
Advance ==
    /\ \/ /\ status = "playing"
          /\ now - startTime <= duration * MsPerSecond
          /\ now' = now + MsPerSecond
       \/ /\ status = "ended"
          /\ now - startTime <= OLD_GAME_THRESHOLD
          /\ now' = now + OLD_GAME_THRESHOLD
    /\ UNCHANGED <<registered, gameVars, sockState, sockGame, ack, names, otherGames, otherPlayers, otherHost,
                   sockOther, sockName,
                   pending, delivered, joinOrder>>

\* game.startTime ? now - game.startTime : now - (game.createdAt || now)
gameAge == IF startTime # 0 THEN now - startTime ELSE 0

\* Faulty variant of evictable: an ended session of any age.
evictableWhenEnded == status = "ended"

\* The condition the cleanup removes a session on.
evictable == gameAge > OLD_GAME_THRESHOLD /\ status = "ended"

\* The cleanup setInterval, for the session.
Cleanup ==
    /\ registered
    /\ IF evictable
       THEN /\ registered' = FALSE
            /\ timerInterval' = FALSE
       ELSE UNCHANGED <<registered, timerInterval>>
    /\ ack' = [op |-> "cleanup", res |-> NoResponse]
    /\ UNCHANGED <<mode, letters, letterCount, hostId, players, claims,
                   playerClaims,
                   status, startTime, now, sockState, sockGame,
                   names, otherGames, otherPlayers, otherHost,
                   sockOther, sockName, pending, delivered, joinOrder>>

\* The names a client asks for: any name on its first join, and the name it
\* holds on a repeated join.  SpecRename lifts the second half.
JoinNames(s) == IF sockName[s] = NULL THEN names ELSE {sockName[s]}

Next ==
    \/ \E s \in Sockets : Connect(s)
    \/ \E s \in Sockets : \E n \in JoinNames(s) : JoinGame(s, n)
    \/ \E s \in Sockets : StartGame(s)
    \/ \E s \in Sockets, w \in RawWords : SubmitWord(s, w)
    \/ \E s \in Sockets : Disconnect(s)
    \/ \E s \in Sockets : GetGameState(s)
    \/ TimerTick
    \/ Advance
    \/ Cleanup

Spec == Init /\ [][Next]_vars

\* The step of TimerTick that ends the round, by its condition and what it
\* does to the status.
RoundTimesOut ==
    /\ timerInterval
    /\ remainingTime <= 0
    /\ status' = "ended"

\* The same runs where setInterval keeps calling the callback while the
\* interval is set, so that a round whose time is up does not stay playing,
\* and where the clock keeps moving.
SpecLive == Spec /\ WF_status(RoundTimesOut) /\ WF_vars(Advance)

(***************************************************************************)
(* The session's membership and host alone, with more connections: the    *)
(* handlers that write the player table, the host and the status, in runs *)
(* where no word is submitted and the round does not end.                  *)
(***************************************************************************)
InitLobby ==
    /\ registered = TRUE
    /\ mode \in {"freeforall", "exclusive"}
    /\ letters = SessionLetters
    /\ letterCount = Len(SessionLetters)
    /\ hostId = NULL
    /\ players = <<>>
    /\ claims = <<>>
    /\ playerClaims = <<>>
    /\ status = "waiting"
    /\ startTime = 0
    /\ timerInterval = FALSE
    /\ now = T0
    /\ sockState = [s \in {SocketIds[i] : i \in 1..LobbySockets} |-> "new"]
    /\ sockGame = {}
    /\ names = LobbyNames
    /\ otherGames = {}
    /\ otherPlayers = <<>>
    /\ otherHost = NULL
    /\ sockOther = {}
    /\ sockName = [s \in DOMAIN sockState |-> joinedName(players, s)]
    /\ ack = [op |-> "create", res |-> NoResponse]
    /\ pending = {}
    /\ delivered = <<>>
    /\ joinOrder = <<>>

NextLobby ==
    \/ \E s \in Sockets : Connect(s)
    \/ \E s \in Sockets : \E n \in JoinNames(s) : JoinGame(s, n)
    \/ \E s \in Sockets : StartGame(s)
    \/ \E s \in Sockets : Disconnect(s)

SpecLobby == InitLobby /\ [][NextLobby]_vars


(***************************************************************************)
(* Submissions in flight.  A running round with two players; submit-word   *)
(* messages are sent, stay in flight, and are handled one at a time in any *)
(* order across sockets (in sending order on one socket), interleaved with *)
(* the timer and the clock.                                                *)
(***************************************************************************)
\* Submissions sent in one run of SpecRace.
MaxSends == 2

\* The raw words sent in SpecRace: two spellings of one legal word, another
\* legal word, and a word that is not in the list.
RaceWords ==
    { <<"A","T","T">>, <<"a","t","t">>, <<" ","E","T","T"," ">>,
      <<"T","A","T">> }

\* The state after s1 (Alva) and s2 (Bo) joined and s1 started the round.
InitRace ==
    /\ registered = TRUE
    /\ mode \in {"freeforall", "exclusive"}
    /\ letters = SessionLetters
    /\ letterCount = Len(SessionLetters)
    /\ hostId = "s1"
    /\ players = << [key |-> "s1", id |-> "s1", name |-> "Alva", score |-> 0,
                     connected |-> TRUE],
                    [key |-> "s2", id |-> "s2", name |-> "Bo", score |-> 0,
                     connected |-> TRUE] >>
    /\ claims = <<>>
    /\ playerClaims = <<>>
    /\ status = "playing"
    /\ startTime = T0
    /\ timerInterval = TRUE
    /\ now = T0
    /\ sockState = [s \in {"s1", "s2"} |-> "open"]
    /\ sockGame = {"s1", "s2"}
    /\ names = PlayerNames
    /\ otherGames = {}
    /\ otherPlayers = <<>>
    /\ otherHost = NULL
    /\ sockOther = {}
    /\ sockName = [s \in DOMAIN sockState |-> joinedName(players, s)]
    /\ ack = [op |-> "start", res |-> NoResponse]
    /\ pending = {}
    /\ delivered = <<>>
    /\ joinOrder = <<"Alva", "Bo">>

\* A client emits submit-word: seq orders the messages, handledBefore is
\* the number of messages handled when this one was sent.
SendSubmit(s, word) ==
    /\ sockState[s] = "open"
    /\ Cardinality(pending) < MaxPending
    /\ Cardinality(pending) + Len(delivered) < MaxSends
    /\ pending' = pending \cup
           {[sock |-> s, word |-> word,
             seq |-> Cardinality(pending) + Len(delivered),
             handledBefore |-> Len(delivered)]}
    /\ UNCHANGED <<registered, gameVars, now, sockState, sockGame, names, otherGames, otherPlayers, otherHost,
                   sockOther, sockName,
                   ack, delivered, joinOrder>>

\* socket.on('submit-word') runs for a message in flight.
DeliverSubmit(m) ==
    /\ m \in pending
    /\ \A m2 \in pending : m2.sock = m.sock => m2.seq >= m.seq
    /\ LET out == handleSubmit(m.sock, m.word)
       IN  /\ claims' = out.claims
           /\ playerClaims' = out.playerClaims
           /\ players' = out.players
           /\ ack' = [op |-> "submit", res |-> out.res,
                      events |-> submitEvents(m.sock, out)]
           /\ delivered' = Append(delivered,
                  [sock |-> m.sock, word |-> m.word,
                   handledBefore |-> m.handledBefore, res |-> out.res])
    /\ pending' = pending \ {m}
    /\ letters' = lettersAfterSubmit(m.sock, m.word)
    /\ UNCHANGED <<registered, mode, letterCount, hostId, status, startTime,
                   timerInterval, now, sockState, sockGame, names, otherGames, otherPlayers, otherHost,
                   sockOther, sockName,
                   joinOrder>>

NextRace ==
    \/ \E s \in Sockets, w \in RaceWords : SendSubmit(s, w)
    \/ \E m \in pending : DeliverSubmit(m)
    \/ TimerTick
    \/ Advance

SpecRace == InitRace /\ [][NextRace]_vars

(***************************************************************************)
(* The letter bag.  Sessions created with each letter count of the model   *)
(* and each bag generateLetters can return for it, played by one client    *)
(* from the join to the end of the round.                                  *)
(***************************************************************************)
\* options.letterCount of the sessions created in SpecLetters.
MinLetterCount == 3
MaxLetterCount == 4

\* The raw words sent in SpecLetters.
LetterWords ==
    { <<"A","T","T">>, <<"e","t","t">>, <<"T","A","T">>, <<"H","A","R">>,
      <<" ">> }

\* createGame(options) with options.letterCount given.
InitLetters ==
    /\ registered = TRUE
    /\ mode \in {"freeforall", "exclusive"}
    /\ letterCount \in MinLetterCount..MaxLetterCount
    /\ letters \in generateLetters(letterCount)
    /\ hostId = NULL
    /\ players = <<>>
    /\ claims = <<>>
    /\ playerClaims = <<>>
    /\ status = "waiting"
    /\ startTime = 0
    /\ timerInterval = FALSE
    /\ now = T0
    /\ sockState = [s \in {SocketIds[1]} |-> "new"]
    /\ sockGame = {}
    /\ names = {"Alva"}
    /\ otherGames = {}
    /\ otherPlayers = <<>>
    /\ otherHost = NULL
    /\ sockOther = {}
    /\ sockName = [s \in DOMAIN sockState |-> joinedName(players, s)]
    /\ ack = [op |-> "create", res |-> NoResponse]
    /\ pending = {}
    /\ delivered = <<>>
    /\ joinOrder = <<>>

NextLetters ==
    \/ \E s \in Sockets : Connect(s)
    \/ \E s \in Sockets, n \in names : JoinGame(s, n)
    \/ \E s \in Sockets : StartGame(s)
    \/ \E s \in Sockets, w \in LetterWords : SubmitWord(s, w)
    \/ TimerTick
    \/ Advance

SpecLetters == InitLetters /\ [][NextLetters]_vars

(***************************************************************************)
(* A round with a player who came back.  Alva (s1) and Bo (s2) joined, s1  *)
(* closed, which made s2 host, Alva joined again on s3, and s2 started the *)
(* round: the table holds Bo and then Alva.  The round is played to its    *)
(* end, with submissions and disconnects.                                  *)
(***************************************************************************)
InitRound ==
    /\ registered = TRUE
    /\ mode \in {"freeforall", "exclusive"}
    /\ letters = SessionLetters
    /\ letterCount = Len(SessionLetters)
    /\ hostId = "s2"
    /\ players = << [key |-> "s2", id |-> "s2", name |-> "Bo", score |-> 0,
                     connected |-> TRUE],
                    [key |-> "s3", id |-> "s1", name |-> "Alva", score |-> 0,
                     connected |-> TRUE] >>
    /\ claims = <<>>
    /\ playerClaims = <<>>
    /\ status = "playing"
    /\ startTime = T0
    /\ timerInterval = TRUE
    /\ now = T0
    /\ sockState = [s \in {"s1", "s2", "s3"} |->
                       IF s = "s1" THEN "closed" ELSE "open"]
    /\ sockGame = {"s1", "s2", "s3"}
    /\ names = PlayerNames
    /\ otherGames = {}
    /\ otherPlayers = <<>>
    /\ otherHost = NULL
    /\ sockOther = {}
    /\ sockName = [s \in DOMAIN sockState |-> joinedName(players, s)]
    /\ ack = [op |-> "start", res |-> NoResponse]
    /\ pending = {}
    /\ delivered = <<>>
    /\ joinOrder = <<"Alva", "Bo">>

NextRound ==
    \/ \E s \in Sockets, w \in RawWords : SubmitWord(s, w)
    \/ \E s \in Sockets : Disconnect(s)
    \/ TimerTick
    \/ Advance

SpecRound == InitRound /\ [][NextRound]_vars


(***************************************************************************)
(* The game logic called on its own: canFormWord applied to every word and *)
(* every bag of a small alphabet, in both cases of the letters of the word.*)
(***************************************************************************)
\* The longest word and the latest second the scoring functions are asked
\* about.
MaxScoredLength == 8
MaxScoredSecond == 61

\* The seconds asked about: the start, the examples, and the seconds around
\* the end of the scoring window.
ScoredSeconds == {0, 1, 10, 59, 60, MaxScoredSecond}

\* The longest bag and the longest word of SpecLogic.
MaxBagLength == 3
MaxWordLength == 3

\* All sequences of length at most n over the set S.
SeqsUpTo(S, n) == UNION {[1..k -> S] : k \in 0..n}

LogicBags == SeqsUpTo({"A", "B"}, MaxBagLength)
LogicWords == SeqsUpTo({"A", "B", "a"}, MaxWordLength)

\* Bags that words of the list can be formed from: the bag of the modelled
\* session, a bag for a short and a longer word, and a bag for every word.
EnumerationBags ==
    { SessionLetters,
      <<"P", "Å", "H", "A", "R">>,
      <<"O", "C", "H", "A", "T", "T", "D", "E", "S", "M", "R", "V", "F", "Ö",
        "P", "Å">> }

\* The largest minimum length findPossibleWords is called with.
MaxEnumerationMinimum == 4

\* A session whose bag is any of these bags, with no client.
InitLogic ==
    /\ registered = TRUE
    /\ mode \in {"freeforall", "exclusive"}
    /\ letters \in LogicBags \cup EnumerationBags
    /\ letterCount = Len(letters)
    /\ hostId = NULL
    /\ players = <<>>
    /\ claims = <<>>
    /\ playerClaims = <<>>
    /\ status = "waiting"
    /\ startTime = 0
    /\ timerInterval = FALSE
    /\ now = T0
    /\ sockState = <<>>
    /\ sockGame = {}
    /\ names = {}
    /\ otherGames = {}
    /\ otherPlayers = <<>>
    /\ otherHost = NULL
    /\ sockOther = {}
    /\ sockName = [s \in DOMAIN sockState |-> joinedName(players, s)]
    /\ ack = [op |-> "create", res |-> NoResponse]
    /\ pending = {}
    /\ delivered = <<>>
    /\ joinOrder = <<>>

\* canFormWord(word, game.letters) is called and returns.
CanFormWord(word) ==
    /\ ack' = [op |-> "canFormWord", word |-> word,
               res |-> canFormWord(word, letters)]
    /\ letters' = lettersAfterCanFormWord(word, letters)
    /\ UNCHANGED <<registered, mode, letterCount, hostId, players, claims,
                   playerClaims, status, startTime, timerInterval, now,
                   sockState, sockGame, names, otherGames, otherPlayers, otherHost,
                   sockOther, sockName, pending, delivered, joinOrder>>

\* calculateFreeForAllScore(word, secondsElapsed) is called, for a word of
\* the given length, and returns.
CalculateFreeForAllScore(len, secondsElapsed) ==
    /\ ack' = [op |-> "calculateFreeForAllScore", len |-> len,
               secondsElapsed |-> secondsElapsed,
               res |-> calculateFreeForAllScore([i \in 1..len |-> "A"],
                                                secondsElapsed)]
    /\ UNCHANGED <<registered, gameVars, now, sockState, sockGame, names, otherGames, otherPlayers, otherHost,
                   sockOther, sockName,
                   pending, delivered, joinOrder>>

\* findPossibleWords(game.letters, minLength) is called and returns.
FindPossibleWords(minLength) ==
    /\ ack' = [op |-> "findPossibleWords", minLength |-> minLength,
               res |-> findPossibleWords(letters, minLength)]
    /\ letters' = lettersAfterFindPossibleWords(wordList, letters, minLength)
    /\ UNCHANGED <<registered, mode, letterCount, hostId, players, claims,
                   playerClaims, status, startTime, timerInterval, now,
                   sockState, sockGame, names, otherGames, otherPlayers, otherHost,
                   sockOther, sockName, pending, delivered, joinOrder>>

NextLogic ==
    \/ \E word \in LogicWords : CanFormWord(word)
    \/ \E minLength \in 1..MaxEnumerationMinimum : FindPossibleWords(minLength)
    \/ \E len \in 0..MaxScoredLength, sec \in ScoredSeconds :
          CalculateFreeForAllScore(len, sec)

SpecLogic == InitLogic /\ [][NextLogic]_vars

(***************************************************************************)
(* The registry: sessions are created while the modelled one has players. *)
(***************************************************************************)
\* generateGameId(): the strings the six random draws can give, of which the
\* model has three.
generateGameId == {SessionId, OtherId, "ABC236"}

\* games.keys()
registry == (IF registered THEN {SessionId} ELSE {}) \cup otherGames

\* The options of create-game the model sends.
CreateOptions == [mode : {"freeforall", "exclusive"},
                  letterCount : {MinLetterCount}]

\* socket.on('create-game'): createGame(options) with games.set(id, game).
\* An id equal to the modelled session's puts the new session in its place.
CreateGame(s, options) ==
    /\ sockState[s] = "open"
    /\ \E id \in generateGameId :
          /\ IF id = SessionId
             THEN /\ registered' = TRUE
                  /\ mode' = options.mode
                  /\ letters' \in generateLetters(options.letterCount)
                  /\ letterCount' = options.letterCount
                  /\ hostId' = NULL
                  /\ players' = <<>>
                  /\ claims' = <<>>
                  /\ playerClaims' = <<>>
                  /\ status' = "waiting"
                  /\ startTime' = 0
                  /\ timerInterval' = FALSE
                  /\ joinOrder' = <<>>
                  /\ UNCHANGED otherGames
             ELSE /\ otherGames' = otherGames \cup {id}
                  /\ UNCHANGED <<registered, gameVars, joinOrder>>
          /\ otherPlayers' = IF id = OtherId THEN <<>> ELSE otherPlayers
          /\ otherHost' = IF id = OtherId THEN NULL ELSE otherHost
          /\ ack' = [op |-> "create",
                     res |-> [success |-> TRUE, gameId |-> id]]
    /\ UNCHANGED <<now, sockState, sockGame, names, sockOther, sockName,
                   pending, delivered>>

NextRegistry ==
    \/ \E s \in Sockets : Connect(s)
    \/ \E s \in Sockets, n \in names : JoinGame(s, n)
    \/ \E s \in Sockets : Disconnect(s)
    \/ \E s \in Sockets, o \in CreateOptions : CreateGame(s, o)

SpecRegistry == Init /\ [][NextRegistry]_vars

(***************************************************************************)
(* The session one entry short of MAX_PLAYERS_PER_ROOM.                    *)
(***************************************************************************)
\* Transport connections of SpecRoom: the host's and the ones still to come.
RoomSockets == 4

\* The connections, now closed, of the players who joined after the host and
\* left, and the names they joined under.
LeftIds ==
    <<
       "c02", "c03", "c04", "c05", "c06", "c07", "c08", "c09",
       "c10", "c11", "c12", "c13", "c14", "c15", "c16", "c17",
       "c18", "c19" >>
LeftNames ==
    <<
       "p02", "p03", "p04", "p05", "p06", "p07", "p08", "p09",
       "p10", "p11", "p12", "p13", "p14", "p15", "p16", "p17",
       "p18", "p19" >>

\* The names the connections of SpecRoom join under: two new ones and the
\* name of a player who left.
RoomNames == {"Bo", "Cy", LeftNames[1]}

\* The waiting session after s1 (Alva) joined, the players of LeftNames
\* joined after her, and they all disconnected.
InitRoom ==
    /\ registered = TRUE
    /\ mode \in {"freeforall", "exclusive"}
    /\ letters = SessionLetters
    /\ letterCount = Len(SessionLetters)
    /\ hostId = "s1"
    /\ players = << [key |-> "s1", id |-> "s1", name |-> "Alva", score |-> 0,
                     connected |-> TRUE] >>
                 \o [i \in 1..Len(LeftIds) |->
                       [key |-> LeftIds[i], id |-> LeftIds[i],
                        name |-> LeftNames[i], score |-> 0,
                        connected |-> FALSE]]
    /\ claims = <<>>
    /\ playerClaims = <<>>
    /\ status = "waiting"
    /\ startTime = 0
    /\ timerInterval = FALSE
    /\ now = T0
    /\ sockState = [s \in {SocketIds[i] : i \in 1..RoomSockets} |->
                       IF s = "s1" THEN "open" ELSE "new"]
    /\ sockGame = {"s1"}
    /\ names = RoomNames
    /\ otherGames = {}
    /\ otherPlayers = <<>>
    /\ otherHost = NULL
    /\ sockOther = {}
    /\ sockName = [s \in DOMAIN sockState |-> joinedName(players, s)]
    /\ ack = [op |-> "disconnect", res |-> NoResponse]
    /\ pending = {}
    /\ delivered = <<>>
    /\ joinOrder = <<"Alva">> \o LeftNames

NextRoom ==
    \/ \E s \in Sockets : Connect(s)
    \/ \E s \in Sockets, n \in names : JoinGame(s, n)
    \/ \E s \in Sockets : Disconnect(s)

SpecRoom == InitRoom /\ [][NextRoom]_vars

(***************************************************************************)
(* Two sessions: connections join the modelled session and the session     *)
(* OtherId, which stays waiting.                                           *)
(***************************************************************************)
\* join-game for the session OtherId: the checks and branches of the
\* handler on that session's table and host.
JoinOther(s, playerName) ==
    /\ sockState[s] = "open"
    /\ IF OtherId \notin otherGames
       THEN /\ ack' = [op |-> "joinOther", res |-> Reject(ErrNotFound)]
            /\ UNCHANGED <<otherPlayers, otherHost, sockOther, sockName>>
       ELSE IF Len(otherPlayers) >= MAX_PLAYERS_PER_ROOM
       THEN /\ ack' = [op |-> "joinOther", res |-> Reject(ErrFull)]
            /\ UNCHANGED <<otherPlayers, otherHost, sockOther, sockName>>
       ELSE IF MapHas(otherPlayers, s)
       THEN /\ sockOther' = sockOther \cup {s}
            /\ sockName' = [sockName EXCEPT ![s] = playerName]
            /\ ack' = [op |-> "joinOther",
                       res |-> [success |-> TRUE, isHost |-> s = otherHost]]
            /\ UNCHANGED <<otherPlayers, otherHost>>
       ELSE IF \E i \in 1..Len(otherPlayers) :
                  /\ toLowerCase(otherPlayers[i].name)
                        = toLowerCase(playerName)
                  /\ otherPlayers[i].connected
       THEN /\ ack' = [op |-> "joinOther", res |-> Reject(ErrNameTaken)]
            /\ UNCHANGED <<otherPlayers, otherHost, sockOther, sockName>>
       ELSE /\ LET left == {i \in 1..Len(otherPlayers) :
                              /\ otherPlayers[i].name = playerName
                              /\ ~otherPlayers[i].connected}
               IN  otherPlayers' =
                     IF left # {}
                     THEN LET player == otherPlayers[Min(left)]
                          IN  MapSet(MapDelete(otherPlayers, player.key),
                                     [player EXCEPT !.key = s,
                                                    !.connected = TRUE])
                     ELSE MapSet(otherPlayers,
                                 [key |-> s, id |-> s, name |-> playerName,
                                  score |-> 0, connected |-> TRUE])
            /\ otherHost' = IF otherHost = NULL THEN s ELSE otherHost
            /\ sockOther' = sockOther \cup {s}
            /\ sockName' = [sockName EXCEPT ![s] = playerName]
            /\ ack' = [op |-> "joinOther",
                       res |-> [success |-> TRUE, isHost |-> s = otherHost']]
    /\ UNCHANGED <<registered, gameVars, now, sockState, sockGame, names,
                   otherGames, pending, delivered, joinOrder>>

\* The registry after create-game ran twice: the modelled session and the
\* session OtherId, both waiting with no players.
InitSessions ==
    /\ registered = TRUE
    /\ mode \in {"freeforall", "exclusive"}
    /\ letters = SessionLetters
    /\ letterCount = Len(SessionLetters)
    /\ hostId = NULL
    /\ players = <<>>
    /\ claims = <<>>
    /\ playerClaims = <<>>
    /\ status = "waiting"
    /\ startTime = 0
    /\ timerInterval = FALSE
    /\ now = T0
    /\ sockState = [s \in {SocketIds[i] : i \in 1..MaxSockets} |-> "new"]
    /\ sockGame = {}
    /\ names = PlayerNames
    /\ otherGames = {OtherId}
    /\ otherPlayers = <<>>
    /\ otherHost = NULL
    /\ sockOther = {}
    /\ sockName = [s \in DOMAIN sockState |-> NULL]
    /\ ack = [op |-> "create", res |-> [success |-> TRUE, gameId |-> OtherId]]
    /\ pending = {}
    /\ delivered = <<>>
    /\ joinOrder = <<>>

NextSessions ==
    \/ \E s \in Sockets : Connect(s)
    \/ \E s \in Sockets, n \in names : JoinGame(s, n)
    \/ \E s \in Sockets, n \in names : JoinOther(s, n)
    \/ \E s \in Sockets : Disconnect(s)

SpecSessions == InitSessions /\ [][NextSessions]_vars

(***************************************************************************)
(* Repeated joins: a client may send join-game again on the same socket    *)
(* under any name, before and during the round.                            *)
(***************************************************************************)
NextRename ==
    \/ \E s \in Sockets : Connect(s)
    \/ \E s \in Sockets, n \in names : JoinGame(s, n)
    \/ \E s \in Sockets : StartGame(s)
    \/ \E s \in Sockets, w \in RawWords : SubmitWord(s, w)
    \/ Advance

SpecRename == Init /\ [][NextRename]_vars

(***************************************************************************)
(* Properties.                                                             *)
(***************************************************************************)
ClaimedWords == {ClaimWord(claims[i]) : i \in 1..Len(claims)}

Normalized(w) == trim(toUpperCase(w))

RECURSIVE SumScores(_)
SumScores(entries) ==
    IF entries = <<>> THEN 0
    ELSE Head(entries).score + SumScores(Tail(entries))

ClaimsOf(name) == SelectSeq(claims, LAMBDA c : c.playerName = name)

\* A socket whose submit-word handler reaches submitWord with its own entry.
InTable(s) == gameIdOf(s) = SessionId /\ registered /\ MapHas(players, s)

\* C1: in an Exclusive session the ledger never holds two entries for one
\* normalized word, and a submission of a word that is already in the
\* ledger, by any socket, is refused and leaves the ledger and every score
\* as they were; from a player of a running round the refusal is "already
\* claimed".
ExclusiveOneClaimPerWord ==
    mode = "exclusive" =>
        /\ \A i, j \in 1..Len(claims) :
              i # j => Normalized(ClaimWord(claims[i]))
                          # Normalized(ClaimWord(claims[j]))
        /\ \A s \in Sockets, w \in RawWords :
              Normalized(w) \in {Normalized(W) : W \in ClaimedWords} =>
                  LET out == handleSubmit(s, w)
                  IN  /\ ~out.res.success
                      /\ out.claims = claims
                      /\ out.players = players
                      /\ (InTable(s) /\ status = "playing")
                            => out.res.error = ErrClaimed

\* A submission was refused as already claimed, the ledger holding a claim.
ExclusiveSecondClaimRefused ==
    /\ mode = "exclusive"
    /\ claims # <<>>
    /\ ack.op = "submit"
    /\ ~ack.res.success
    /\ ack.res.error = ErrClaimed

\* C3: in a FreeForAll session no player, identified by display name, has
\* two ledger entries for the same word.
FreeForAllOncePerPlayer ==
    mode = "freeforall" =>
        \A i, j \in 1..Len(claims) :
            (i # j /\ claims[i].playerName = claims[j].playerName)
                => ClaimWord(claims[i]) # ClaimWord(claims[j])

\* C5: every player's total score is the sum of the scores of the ledger
\* entries that carry the player's display name.
ScoreIsSumOfClaims ==
    \A i \in 1..Len(players) :
        players[i].score = SumScores(ClaimsOf(players[i].name))

\* A player holds two claims and has rejoined on a new socket id.
ScoredPlayerRejoined ==
    \E i \in 1..Len(players) :
        /\ players[i].key # players[i].id
        /\ players[i].connected
        /\ Len(ClaimsOf(players[i].name)) >= 2
        /\ players[i].score > 0

\* C6: the status only moves waiting -> playing -> ended, and startTime is
\* null exactly while waiting, is set by the move to playing and never
\* changes afterwards.
StatusMonotonic ==
    /\ [](status = "waiting" <=> startTime = 0)
    /\ [][/\ status = "waiting" => status' \in {"waiting", "playing"}
          /\ status = "playing" => status' \in {"playing", "ended"}
          /\ status = "ended" => status' = "ended"
          /\ startTime # 0 => startTime' = startTime]_vars

\* The round has ended and the cleanup has removed the session.
EndedAndSwept ==
    /\ status = "ended"
    /\ startTime # 0
    /\ ~registered

\* C7: a submission by a socket that is not in the player table, or made
\* while the status is not playing, is refused as round-not-active whatever
\* the word, and writes nothing.
SubmitOnlyWhilePlaying ==
    \A s \in Sockets, w \in RawWords :
        (~MapHas(players, s) \/ status # "playing") =>
            LET out == submitWord(s, w)
            IN  out = Unchanged(Reject(ErrNotActive))

\* A submission was refused as round-not-active after the round ended.
SubmitAfterEndRefused ==
    /\ status = "ended"
    /\ ack.op = "submit"
    /\ ~ack.res.success
    /\ ack.res.error = ErrNotActive

HandledWhilePlaying(d) == d.res.success \/ d.res.error # ErrNotActive

RacePair(i, j) ==
    /\ i < j
    /\ delivered[i].sock # delivered[j].sock
    /\ Normalized(delivered[i].word) = Normalized(delivered[j].word)
    /\ validateWord(delivered[i].word, letters, minWordLength).valid
    /\ delivered[j].handledBefore < i
    /\ HandledWhilePlaying(delivered[i])
    /\ HandledWhilePlaying(delivered[j])
    /\ ~\E k \in 1..(i - 1) :
          /\ delivered[k].res.success
          /\ Normalized(delivered[k].word) = Normalized(delivered[i].word)

AcceptedBy(s) ==
    SelectSeq(delivered, LAMBDA d : d.sock = s /\ d.res.success)

RECURSIVE SumLengths(_)
SumLengths(ds) ==
    IF ds = <<>> THEN 0
    ELSE Len(Head(ds).res.word) + SumLengths(Tail(ds))

\* C2 (SpecRace): of two submissions of one legal word that were in flight
\* together, from different players of a running Exclusive round, the one
\* handled first is accepted when the word was free, and the other is
\* refused as already claimed; no word is ever accepted twice, and every
\* score is the sum of the lengths of the player's accepted words.
ExactlyOneOfTwoAccepted ==
    mode = "exclusive" =>
        /\ \A i, j \in 1..Len(delivered) :
              (i < j /\ delivered[i].res.success /\ delivered[j].res.success)
                  => Normalized(delivered[i].word) # Normalized(delivered[j].word)
        /\ \A i, j \in 1..Len(delivered) :
              RacePair(i, j) =>
                  /\ delivered[i].res.success
                  /\ delivered[j].res = Reject(ErrClaimed)
        /\ \A i \in 1..Len(players) :
              players[i].score = SumLengths(AcceptedBy(players[i].key))

\* Two such submissions were in flight together and both have been handled.
RaceHappened ==
    /\ mode = "exclusive"
    /\ \E i, j \in 1..Len(delivered) :
          /\ RacePair(i, j)
          /\ delivered[i].res.success
          /\ ~delivered[j].res.success

OthersClaimed(s, W) ==
    /\ \E i \in 1..Len(claims) :
          /\ ClaimWord(claims[i]) = W
          /\ claims[i].playerName # MapGet(players, s).name
    /\ ~\E i \in 1..Len(claims) :
          /\ ClaimWord(claims[i]) = W
          /\ claims[i].playerName = MapGet(players, s).name

\* C4: in a running FreeForAll round a legal word that another player has
\* claimed is accepted from a player who has not claimed it: the ledger
\* gains one entry for this player, scored from the elapsed time of this
\* submission, every earlier entry stays as it was, and only this player's
\* score grows, by that score.
FreeForAllOthersCanClaim ==
    mode = "freeforall" =>
        \A s \in Sockets, w \in RawWords :
            ( /\ InTable(s)
              /\ status = "playing"
              /\ validateWord(w, letters, minWordLength).valid
              /\ OthersClaimed(s, Normalized(w)) ) =>
                LET out == handleSubmit(s, w)
                    W == Normalized(w)
                    sc == calculateFreeForAllScore(W, Elapsed)
                    entry == out.claims[Len(out.claims)]
                IN  /\ out.res.success
                    /\ out.res.score = sc
                    /\ Len(out.claims) = Len(claims) + 1
                    /\ SubSeq(out.claims, 1, Len(claims)) = claims
                    /\ entry.playerId = s
                    /\ entry.playerName = MapGet(players, s).name
                    /\ ClaimWord(entry) = W
                    /\ entry.score = sc
                    /\ entry.timestamp = Elapsed
                    /\ \A i \in 1..Len(players) :
                          out.players[i].score = players[i].score
                              + (IF players[i].key = s THEN sc ELSE 0)

\* Two players hold the same word, claimed at different seconds.
SameWordTwoPlayers ==
    /\ mode = "freeforall"
    /\ \E i, j \in 1..Len(claims) :
          /\ i < j
          /\ ClaimWord(claims[i]) = ClaimWord(claims[j])
          /\ claims[i].playerName # claims[j].playerName
          /\ claims[i].timestamp # claims[j].timestamp
          /\ claims[i].score # claims[j].score

\* C8: a start request succeeds exactly when the requester is the host and
\* the session is waiting with at least one player; a non-host is refused
\* as not-host and the host of a started session as already started; the
\* status leaves waiting only by a successful start, and a refused start
\* leaves status, start time and timer as they were.
StartOnlyByHostWhileWaiting ==
    /\ [](\A s \in Sockets :
            (gameIdOf(s) = SessionId /\ registered) =>
                /\ startGameResponse(s).success <=>
                      (s = hostId /\ status = "waiting" /\ Len(players) >= 1)
                /\ s # hostId => startGameResponse(s) = Reject(ErrNotHost)
                /\ (s = hostId /\ status # "waiting")
                      => startGameResponse(s) = Reject(ErrStarted))
    /\ [][/\ (status = "waiting" /\ status' # "waiting") =>
                /\ status' = "playing"
                /\ ack'.op = "start"
                /\ ack'.res.success
                /\ sockState[hostId] = "open"
                /\ Len(players) >= 1
                /\ startTime' = now
                /\ timerInterval'
          /\ (ack'.op = "start" /\ ~ack'.res.success) =>
                UNCHANGED <<status, startTime, timerInterval>>]_vars

\* The host's second start request was refused as already started.
SecondStartRefused ==
    /\ status = "playing"
    /\ ack.op = "start"
    /\ ack.res = Reject(ErrStarted)

\* C9: the host id is null or the key of an entry of the player table.
HostInTable == hostId = NULL \/ MapHas(players, hostId)

Closing(s) == sockState[s] = "open" /\ sockState'[s] = "closed"

OthersConnected(s) ==
    {i \in 1..Len(players) : players[i].connected /\ players[i].key # s}

\* C10 (SpecLobby): the first player to join becomes host; when the host
\* disconnects while other players are connected, the host becomes the
\* first connected player in the order of the player table, in which a
\* player who rejoined stands where the rejoin put them, at the end; a
\* disconnect of a non-host leaves the host as it was.
HostFollowsTableOrder ==
    [][/\ (players = <<>> /\ players' # <<>>) => hostId' = players'[1].key
       /\ \A s \in Sockets :
             Closing(s) =>
                 IF s = hostId
                 THEN OthersConnected(s) # {} =>
                          hostId' = players[Min(OthersConnected(s))].key
                 ELSE hostId' = hostId]_vars

\* P1 and P2 have disconnected and the third entry of the table is host.
HostPassedToThird ==
    /\ Len(players) >= 3
    /\ ~players[1].connected
    /\ ~players[2].connected
    /\ players[3].connected
    /\ hostId = players[3].key
    /\ ack.op = "disconnect"

JoinPosition(name) == CHOOSE k \in 1..Len(joinOrder) : joinOrder[k] = name

\* The first of the entries S in join order, counted from the start.
FirstJoined(S) ==
    CHOOSE i \in S : \A j \in S :
        JoinPosition(players[i].name) <= JoinPosition(players[j].name)

\* The first of the entries S in join order, counted onwards from s, round
\* the end of the order.
JoinDistance(s, i) ==
    (JoinPosition(players[i].name)
        - JoinPosition(MapGet(players, s).name)) % Len(joinOrder)

NextJoined(s, S) ==
    CHOOSE i \in S : \A j \in S : JoinDistance(s, i) <= JoinDistance(s, j)

\* C10 as stated: "join order" is the order in which the players, known by
\* their display names, first joined the session, and the next player in it
\* is counted from the start of the order or onwards from the old host.
HostFollowsJoinOrder ==
    [][/\ (players = <<>> /\ players' # <<>>) => hostId' = players'[1].key
       /\ \A s \in Sockets :
             Closing(s) =>
                 IF s = hostId
                 THEN OthersConnected(s) # {} =>
                          hostId' \in
                              {players[FirstJoined(OthersConnected(s))].key,
                               players[NextJoined(s, OthersConnected(s))].key}
                 ELSE hostId' = hostId]_vars


\* The connected entries of a player table.
ConnectedIn(table) == {i \in 1..Len(table) : table[i].connected}

\* C11: when the disconnect handler runs for the host and no other player
\* of the session is connected, the host becomes unset; and a join that
\* succeeds for a connection outside the table while no player of the
\* session is connected makes that connection the host.
LoneHostLeavesHostUnset ==
    [][ /\ \A s \in Sockets :
              ( /\ Disconnect(s)
                /\ InTable(s)
                /\ s = hostId
                /\ ConnectedIn(players) \subseteq {MapIndex(players, s)} )
              => hostId' = NULL
        /\ \A s \in Sockets, n \in names :
              ( /\ JoinGame(s, n)
                /\ ~MapHas(players, s)
                /\ players # <<>>
                /\ ConnectedIn(players) = {}
                /\ ack'.res.success )
              => hostId' = s ]_vars


\* The entries of a table other than the one at position i, in order.
Without(table, i) == SubSeq(table, 1, i - 1) \o SubSeq(table, i + 1, Len(table))

\* C12: a join that arrives on a transport id outside the table with exactly
\* the display name of a disconnected entry, and is not refused, rebinds
\* that entry: the table keeps its size, the old id is no longer a key, the
\* entry stands under the new id with connected true and the score and name
\* it had, and every other entry is as it was; a refused join leaves the
\* table as it was.  With no case-variant names in play the join is refused
\* only when the session has ended or has left the registry.
RejoinRebindsEntry ==
    [][ \A s \in Sockets, n \in names :
          ( /\ JoinGame(s, n)
            /\ ~MapHas(players, s)
            /\ reconnectable(n) # {} )
          => LET i == Min(reconnectable(n))
                 old == players[i]
             IN  IF ack'.res.success
                 THEN /\ Len(players') = Len(players)
                      /\ ~MapHas(players', old.key)
                      /\ MapHas(players', s)
                      /\ MapGet(players', s).connected
                      /\ MapGet(players', s).score = old.score
                      /\ MapGet(players', s).name = n
                      /\ Without(players', MapIndex(players', s))
                            = Without(players, i)
                 ELSE /\ players' = players
                      /\ \/ ~registered
                         \/ status = "ended"
                         \/ nameTaken(n) ]_vars

\* A player who had scored is back under a new id, as the join's snapshot
\* of the table shows.
RejoinKeptScore ==
    /\ ack.op = "join"
    /\ ack.res.success
    /\ \E i \in 1..Len(players) :
          /\ players[i].key # players[i].id
          /\ players[i].connected
          /\ players[i].score > 0
          /\ ack.res.gameState.players[i].id = players[i].key
          /\ ack.res.gameState.players[i].score = players[i].score


\* C13: the snapshot returned by a join that rebinds a disconnected entry
\* lists every claim the ledger holds for that player (by display name),
\* in both modes.
RejoinShowsClaimHistory ==
    [][ \A s \in Sockets, n \in names :
          ( /\ JoinGame(s, n)
            /\ ~MapHas(players, s)
            /\ reconnectable(n) # {}
            /\ ack'.res.success )
          => \A i \in 1..Len(claims) :
                claims[i].playerName = n
                  => \E j \in 1..Len(ack'.res.gameState.claims) :
                        LET shown == ack'.res.gameState.claims[j]
                        IN  /\ shown.word = ClaimWord(claims[i])
                            /\ shown.playerName = n
                            /\ shown.score = claims[i].score ]_vars


\* Two display names are equal ignoring case.
SameNameIgnoringCase(a, b) == toLowerCase(a) = toLowerCase(b)

\* C14 (SpecLobby): no two connected players of the session have names that
\* are equal ignoring case; and a join from a connection outside the table
\* whose name equals, ignoring case, the name of a connected player is
\* refused, as name taken while the session takes joins, and leaves the
\* player table and the host as they were.
ConnectedNamesUnique ==
    /\ [](\A i, j \in 1..Len(players) :
            ( /\ i # j
              /\ players[i].connected
              /\ players[j].connected )
            => ~SameNameIgnoringCase(players[i].name, players[j].name))
    /\ [][ \A s \in Sockets, n \in names :
             ( /\ JoinGame(s, n)
               /\ ~MapHas(players, s)
               /\ \E i \in 1..Len(players) :
                     /\ players[i].connected
                     /\ SameNameIgnoringCase(players[i].name, n) )
             => /\ ~ack'.res.success
                /\ players' = players
                /\ hostId' = hostId
                /\ (registered /\ status # "ended")
                      => ack'.res = Reject(ErrNameTaken) ]_vars

\* A join was refused as name taken while "alva" is connected and the entry
\* of "Alva" is disconnected.
NameTakenRefused ==
    /\ ack.op = "join"
    /\ ack.res = Reject(ErrNameTaken)
    /\ \E i \in 1..Len(players) :
          players[i].name = "alva" /\ players[i].connected
    /\ \E i \in 1..Len(players) :
          players[i].name = "Alva" /\ ~players[i].connected


\* C15 (SpecLobby): in a session that has not ended, a join from a
\* connection outside the table that carries exactly the name of a
\* disconnected entry succeeds and is matched to that entry, whatever other
\* connections joined in the meantime: it is not refused and no entry is
\* added.
ReservedNameRejoins ==
    [][ \A s \in Sockets, n \in names :
          ( /\ JoinGame(s, n)
            /\ ~MapHas(players, s)
            /\ registered
            /\ status # "ended"
            /\ reconnectable(n) # {} )
          => /\ ack'.res.success
             /\ Len(players') = Len(players)
             /\ MapHas(players', s)
             /\ MapGet(players', s).name = n ]_vars


\* What a snapshot of the session shows as letters, by the status.
ShowsLettersByStatus(gameState) ==
    /\ Len(gameState.letters) = Len(letters)
    /\ IF status = "waiting"
       THEN \A i \in 1..Len(letters) :
               /\ gameState.letters[i] = Masked
               /\ gameState.letters[i] # letters[i]
       ELSE gameState.letters = letters

\* C16: every snapshot given while the session is waiting (by a join or a
\* state query, for any player or none) has the length of the bag and the
\* placeholder in every position, which is no letter of the bag; every
\* snapshot given once the session is playing or ended shows the bag.
LettersMaskedWhileWaiting ==
    /\ (ack.op \in {"join", "state"} /\ ack.res.success)
          => ShowsLettersByStatus(ack.res.gameState)
    /\ \A p \in Sockets \cup {NULL} :
          ShowsLettersByStatus(getGameState(p, hostId, players))

\* A state query was answered with a masked bag while a player waits.
MaskedSnapshotGiven ==
    /\ ack.op = "state"
    /\ ack.res.success
    /\ status = "waiting"
    /\ players # <<>>
    /\ ack.res.gameState.letters = [i \in 1..Len(letters) |-> Masked]


\* The positions of a bag that hold a letter of the given alphabet.
PositionsIn(bag, alphabet) == {i \in 1..Len(bag) : bag[i] \in alphabet}

\* C17 (SpecLetters): at all times the bag has exactly letterCount letters,
\* floor(0.35 * letterCount) of them vowels and the others consonants, and
\* no operation (join, start, submission with its validation, end of round
\* with its enumeration of the possible words) changes the bag.
BagFixedAtCreation ==
    /\ [](/\ Len(letters) = letterCount
          /\ Cardinality(PositionsIn(letters, SWEDISH_LETTERS.vowels))
                = (35 * letterCount) \div 100
          /\ Cardinality(PositionsIn(letters, SWEDISH_LETTERS.consonants))
                = letterCount - (35 * letterCount) \div 100)
    /\ [][letters' = letters]_vars

\* A round ended, with its enumeration, after a word was validated against
\* the bag and accepted.
RoundPlayedOnBag ==
    /\ status = "ended"
    /\ ack.op = "tick"
    /\ claims # <<>>
    /\ ack.res.possibleWords # <<>>


\* The number of positions of a sequence that hold c.
Occurrences(c, seq) == Cardinality({i \in 1..Len(seq) : seq[i] = c})

\* Every letter of the word occurs in the bag at least as often as in the
\* word, the letters of the word being taken in upper case.
MultisetContained(word, bag) ==
    LET upper == toUpperCase(word)
    IN  \A i \in 1..Len(upper) :
           Occurrences(upper[i], upper) <= Occurrences(upper[i], bag)

\* C18 (SpecLogic): for every word and every bag, canFormWord returns true
\* exactly when each letter of the word occurs in the word no more often
\* than in the bag, whatever the order of the letters in either (the case
\* of the word's letters is ignored); a bag A,A,B accepts "AA" and rejects
\* "AAA".
FormableIffMultisetContained ==
    /\ ack.op = "canFormWord"
          => ack.res = MultisetContained(ack.word, letters)
    /\ \A word \in LogicWords :
          canFormWord(word, letters) = MultisetContained(word, letters)
    /\ canFormWord(<<"A", "A">>, <<"A", "A", "B">>)
    /\ ~canFormWord(<<"A", "A", "A">>, <<"A", "A", "B">>)

\* "AAA" was refused from the bag A,A,B.
TripleRefusedFromPair ==
    /\ ack.op = "canFormWord"
    /\ letters = <<"A", "A", "B">>
    /\ ack.word = <<"A", "A", "A">>
    /\ ack.res = FALSE


\* The largest minimum length validateWord is asked about in the properties.
MaxMinLength == 4

\* The first check a word fails, in the order empty, too short, unformable,
\* not a word; "" when it fails none.
FirstFailure(word, bag, minLength) ==
    LET trimmed == Normalized(word)
    IN  IF trimmed = <<>> THEN ErrEmpty
        ELSE IF ~(Len(trimmed) >= minLength) THEN ErrTooShort
        ELSE IF ~MultisetContained(trimmed, bag) THEN ErrLetters
        ELSE IF trimmed \notin wordList THEN ErrNotWord
        ELSE ""

\* C19: for every word and minimum length, validateWord on the bag returns
\* valid exactly when the trimmed word is not empty, is at least the minimum
\* long, is formable from the bag and is in the word list, and otherwise the
\* reason of the first of these checks that fails, in that order; and a
\* submission by a player of the running round whose word is not valid is
\* answered with that reason, and changes nothing.
ValidationNamesFirstFailure ==
    /\ \A word \in RawWords, minLength \in 1..MaxMinLength :
          LET validation == validateWord(word, letters, minLength)
              failure == FirstFailure(word, letters, minLength)
          IN  /\ validation.valid <=> failure = ""
              /\ ~validation.valid => validation.error = failure
    /\ \A s \in Sockets, word \in RawWords :
          ( /\ status = "playing"
            /\ InTable(s)
            /\ FirstFailure(word, letters, minWordLength) # "" )
          => handleSubmit(s, word)
                = Unchanged(Reject(FirstFailure(word, letters,
                                                minWordLength)))

\* A submission in the running round was refused for its letters.
UnformableWordRefused ==
    /\ ack.op = "submit"
    /\ ack.res = Reject(ErrLetters)
    /\ status = "playing"


\* len * max(0, 60 - elapsedSeconds), plus 5 when len > 6.
FreeForAllFormula(len, elapsedSeconds) ==
    len * (IF 60 - elapsedSeconds > 0 THEN 60 - elapsedSeconds ELSE 0)
      + (IF len > 6 THEN 5 ELSE 0)

ScoreOfLength(len, sec) == calculateFreeForAllScore([i \in 1..len |-> "A"], sec)

\* C21 (SpecLogic): a score calculateFreeForAllScore returned, for a word
\* of at least one letter at a second below 60, is strictly more than the
\* score of every shorter word at that second and than the score of the
\* same word at every later second; from second 60 on the time term is
\* zero, and then the score is never less than that of a shorter word, and
\* more only by the length bonus, and equals that of the same word at every
\* later second.
LongerAndEarlierScoreMore ==
    (ack.op = "calculateFreeForAllScore" /\ ack.len >= 1)
    => /\ \A short \in 1..MaxScoredLength :
             short < ack.len
               => LET other == ScoreOfLength(short, ack.secondsElapsed)
                  IN  IF ack.secondsElapsed < 60 THEN ack.res > other
                      ELSE ack.res - other \in {0, 5}
       /\ \A late \in ScoredSeconds :
             ack.secondsElapsed < late
               => LET other == ScoreOfLength(ack.len, late)
                  IN  IF ack.secondsElapsed < 60 THEN ack.res > other
                      ELSE ack.res = other

\* A word of four letters was scored at second 60 and earned nothing.
ScoredAtEndOfWindow ==
    /\ ack.op = "calculateFreeForAllScore"
    /\ ack.len = 4
    /\ ack.secondsElapsed = 60
    /\ ack.res = 0

\* C21 as stated: at every elapsed second a longer word scores strictly
\* more than a shorter one, and every word scores strictly more at an
\* earlier second than at a later one.
LongerAndEarlierStrictlyMore ==
    (ack.op = "calculateFreeForAllScore" /\ ack.len >= 1)
    => /\ \A short \in 1..MaxScoredLength :
             short < ack.len
               => ack.res > ScoreOfLength(short, ack.secondsElapsed)
       /\ \A late \in ScoredSeconds :
             ack.secondsElapsed < late
               => ack.res > ScoreOfLength(ack.len, late)


\* The position of a ranked player in the table.
TablePosition(ranked) == MapIndex(players, ranked.id)

\* The rankings of the event hold every entry of the table exactly once,
\* with its name and score, in non-increasing score order.
RankedOnceByScore(ranks) ==
    /\ Len(ranks) = Len(players)
    /\ \A i \in 1..Len(players) :
          \E j \in 1..Len(ranks) :
             /\ ranks[j].id = players[i].key
             /\ ranks[j].name = players[i].name
             /\ ranks[j].score = players[i].score
    /\ \A i, j \in 1..Len(ranks) : i < j => ranks[i].score >= ranks[j].score

Range(seq) == {seq[i] : i \in 1..Len(seq)}

\* C23: the word of every claim in the ledger is among the words
\* findPossibleWords returns for the session's bag and minimum length, and
\* so is in the possible-words list of the event emitted when the round
\* ends.
ClaimsAmongPossibleWords ==
    /\ \A i \in 1..Len(claims) :
          ClaimWord(claims[i]) \in Range(findPossibleWords(letters,
                                                            minWordLength))
    /\ (ack.op = "tick" /\ status = "ended")
          => \A i \in 1..Len(ack.res.claims) :
                ack.res.claims[i].word \in Range(ack.res.possibleWords)

\* The round ended with two claims of different words in the ledger.
ClaimedWordsEnumerated ==
    /\ ack.op = "tick"
    /\ status = "ended"
    /\ Len(ack.res.claims) = 2
    /\ ack.res.claims[1].word # ack.res.claims[2].word
    /\ {ack.res.claims[1].word, ack.res.claims[2].word}
          \subseteq Range(ack.res.possibleWords)


\* Of two words of one length, a comes before b in the Swedish alphabet.
AlphabeticallyBefore(a, b) ==
    \E k \in 1..Len(a) :
       /\ \A m \in 1..(k - 1) : a[m] = b[m]
       /\ svIndex(a[k]) < svIndex(b[k])

\* C24 (SpecLogic): the list findPossibleWords returns holds exactly the
\* words of the word list that are at least the minimum long and formable
\* from the bag, each once, the longer before the shorter and words of one
\* length in ascending alphabetical order.
EnumerationExactAndOrdered ==
    ack.op = "findPossibleWords"
    => /\ Range(ack.res)
             = {word \in wordList : /\ Len(word) >= ack.minLength
                                    /\ MultisetContained(word, letters)}
       /\ Cardinality(Range(ack.res)) = Len(ack.res)
       /\ \A i, j \in 1..Len(ack.res) :
             i < j
               => \/ Len(ack.res[i]) > Len(ack.res[j])
                  \/ /\ Len(ack.res[i]) = Len(ack.res[j])
                     /\ AlphabeticallyBefore(ack.res[i], ack.res[j])

\* Every word of the list was enumerated, the two-letter word last.
WholeListEnumerated ==
    /\ ack.op = "findPossibleWords"
    /\ Range(ack.res) = wordList
    /\ ack.res[1] = <<"A", "T", "T">>
    /\ ack.res[Len(ack.res)] = <<"P", "Å">>


\* C25: the snapshot a successful join returns holds, in free-for-all,
\* exactly the claims the ledger holds for the joining player and none of
\* another player, and in exclusive every claim of the ledger.
JoinSnapshotFilteredByMode ==
    [][ \A s \in Sockets, n \in names :
          (JoinGame(s, n) /\ ack'.res.success)
          => LET shown == ack'.res.gameState.claims
                 me == MapGet(players', s).name
                 mine == IF mode = "freeforall" THEN ClaimsOf(me) ELSE claims
             IN  /\ Len(shown) = Len(mine)
                 /\ \A i \in 1..Len(mine) :
                       /\ shown[i].word = ClaimWord(mine[i])
                       /\ shown[i].playerName = mine[i].playerName
                       /\ shown[i].score = mine[i].score ]_vars


\* C26: a submission that is refused emits nothing.  One that is accepted
\* emits the claim with its word: in exclusive to exactly the connections in
\* the room and no scores-updated; in free-for-all to the submitter alone,
\* and scores-updated, which has the players and no word, to exactly the
\* other connections in the room.
ClaimAnnouncedByMode ==
    [][ \A s \in Sockets, w \in RawWords :
          (ack'.op = "submit" /\ SubmitWord(s, w))
          => LET wordClaimed == ack'.events.wordClaimed
                 scoresUpdated == ack'.events.scoresUpdated
             IN  IF ~ack'.res.success
                 THEN wordClaimed = {} /\ scoresUpdated = {}
                 ELSE /\ \A e \in wordClaimed : e.data.word = ack'.res.word
                      /\ \A e \in scoresUpdated :
                            /\ DOMAIN e.data = {"players"}
                            /\ Len(e.data.players) = Len(players')
                            /\ \A i \in 1..Len(players') :
                                  e.data.players[i].score = players'[i].score
                      /\ IF mode = "exclusive"
                         THEN /\ {e.to : e \in wordClaimed} = room
                              /\ scoresUpdated = {}
                         ELSE /\ {e.to : e \in wordClaimed} = {s}
                              /\ {e.to : e \in scoresUpdated} = room \ {s}
      ]_vars

\* A free-for-all claim was accepted while another connection was in the
\* room: the submitter got the word, the other one the scores.
ScoresOnlyToOthers ==
    /\ ack.op = "submit"
    /\ ack.res.success
    /\ mode = "freeforall"
    /\ ack.events.scoresUpdated # {}
    /\ ack.events.wordClaimed # {}


\* C27: the session leaves the registry only in a step of the cleanup, taken
\* while its status is ended and its round started more than
\* OLD_GAME_THRESHOLD ago; a waiting or playing session is never removed; and
\* a session that was removed has no timer scheduled.
SweepOnlyOldEnded ==
    /\ [][ (registered /\ ~registered')
           => /\ Cleanup
              /\ status = "ended"
              /\ startTime # 0
              /\ now - startTime > OLD_GAME_THRESHOLD
              /\ ~timerInterval' ]_vars
    /\ [][ (status \in {"waiting", "playing"}) => (UNCHANGED registered) ]_vars
    /\ [](~registered => ~timerInterval)

\* The cleanup has removed a session whose round, with claims, ended more
\* than the threshold ago.
SweptAfterThreshold ==
    /\ ~registered
    /\ ack.op = "cleanup"
    /\ claims # <<>>
    /\ now - startTime > OLD_GAME_THRESHOLD


\* C28 (SpecRegistry): create-game answers with an id that no session of the
\* registry has, adds it to the registry, and leaves every session that was
\* in the registry as it was.
CreateYieldsFreshSession ==
    [][ \A s \in Sockets, o \in CreateOptions :
          (ack'.op = "create" /\ CreateGame(s, o))
          => /\ ack'.res.gameId \notin registry
             /\ registry' = registry \cup {ack'.res.gameId}
             /\ registered => UNCHANGED <<registered, gameVars>> ]_vars


\* C29: the interval is scheduled exactly while the status is playing.  Its
\* callback runs only while the status is playing; the step that ends the
\* round is a callback that emits game-ended and leaves the interval
\* cancelled; once ended the status stays ended, so no callback runs and no
\* game-ended is emitted again; and the cleanup of a session whose interval
\* is already cancelled leaves it cancelled.
TimerExactlyWhilePlaying ==
    /\ [](timerInterval <=> status = "playing")
    /\ [][ (ack'.op = "tick" /\ TimerTick) => status = "playing" ]_vars
    /\ [][ (status # "ended" /\ status' = "ended")
           => /\ ack'.op = "tick"
              /\ TimerTick
              /\ "rankings" \in DOMAIN ack'.res
              /\ ~timerInterval' ]_vars
    /\ [][ (ack'.op = "tick" /\ status' # "ended" /\ TimerTick)
           => ack'.res = NoResponse ]_vars
    /\ [][ (status = "ended")
           => (status' = "ended" /\ ~timerInterval') ]_vars
    /\ [][ (Cleanup /\ ~timerInterval) => ~timerInterval' ]_vars

\* The callback that ended the round has emitted game-ended and no interval
\* is scheduled any more.
RoundEndedTimerCancelled ==
    /\ ack.op = "tick"
    /\ "rankings" \in DOMAIN ack.res
    /\ status = "ended"
    /\ ~timerInterval
    /\ registered


\* C30 (SpecLive): a round that is playing ends, whatever the players do in
\* the meantime: join, leave, submit, ask for the state.
PlayingLeadsToEnded == (status = "playing") ~> (status = "ended")

\* A round ended that every player had left and in which no word was
\* claimed.
DesertedRoundEnded ==
    /\ status = "ended"
    /\ players # <<>>
    /\ \A i \in 1..Len(players) : ~players[i].connected
    /\ claims = <<>>


\* C31 (SpecRace): the game-ended event of the step that ends the round
\* lists every entry of the ledger, which has one entry for every submission
\* accepted so far, and its rankings carry every player's score; once the
\* round has ended the ledger and the scores stay as they are, and a
\* submission handled then is refused as round-not-active.
FinalResultsComplete ==
    /\ [][ (status # "ended" /\ status' = "ended")
           => /\ Len(ack'.res.claims) = Len(claims')
              /\ Len(claims') = Len(SelectSeq(delivered,
                                              LAMBDA d : d.res.success))
              /\ \A i \in 1..Len(claims') :
                    /\ ack'.res.claims[i].word = ClaimWord(claims'[i])
                    /\ ack'.res.claims[i].playerId = claims'[i].playerId
                    /\ ack'.res.claims[i].score = claims'[i].score
              /\ Len(ack'.res.rankings) = Len(players')
              /\ \A i \in 1..Len(players') :
                    \E j \in 1..Len(players') :
                        /\ ack'.res.rankings[j].id = players'[i].key
                        /\ ack'.res.rankings[j].score = players'[i].score
         ]_vars
    /\ [][ (status = "ended") => UNCHANGED <<claims, players>> ]_vars
    /\ []((status = "ended" /\ ack.op = "submit")
            => ack.res = Reject(ErrNotActive))

\* The round ended between two submissions: the one handled before is in
\* the ledger, the one handled after was refused as round-not-active.
SubmissionsAroundEnd ==
    /\ status = "ended"
    /\ \E i, j \in 1..Len(delivered) :
          /\ i < j
          /\ delivered[i].res.success
          /\ delivered[j].res = Reject(ErrNotActive)
          /\ delivered[j].handledBefore = 0


\* C32 (SpecLobby): while the session is waiting and some player of it is
\* connected, the host id is the key of a connected entry of the table.
WaitingHostConnected ==
    ( /\ registered
      /\ status = "waiting"
      /\ ConnectedIn(players) # {} )
    => \E i \in ConnectedIn(players) : players[i].key = hostId


\* C33: whatever connection submits whatever word in whatever state, when
\* the answer is a refusal the ledger, the per-player word sets, the player
\* table with its scores and the letters are as before, and nothing is
\* emitted; the handler writes neither the status nor the host.
RefusalChangesNothing ==
    /\ [](\A s \in Sockets, w \in RawWords :
            LET out == handleSubmit(s, w)
            IN  ~out.res.success
                => /\ out.claims = claims
                   /\ out.playerClaims = playerClaims
                   /\ out.players = players
                   /\ lettersAfterSubmit(s, w) = letters
                   /\ submitEvents(s, out).wordClaimed = {}
                   /\ submitEvents(s, out).scoresUpdated = {})
    /\ [][ (ack'.op = "submit" /\ ~ack'.res.success)
           => UNCHANGED <<status, hostId>> ]_vars

\* A player's second submission of a word they hold was refused in the
\* running free-for-all round.
UsedWordRefused ==
    /\ ack.op = "submit"
    /\ ack.res = Reject(ErrUsed)
    /\ status = "playing"
    /\ ack.events.wordClaimed = {}
    /\ claims # <<>>


\* The snapshot claims are all claims of the player on connection s.
OwnClaimsOnly(s, shown) ==
    \A i \in 1..Len(shown) :
        /\ MapHas(players, s)
        /\ shown[i].playerName = MapGet(players, s).name

\* C34: in a free-for-all session that is waiting or playing, the snapshot
\* a join or a state query answers with holds no claim of a player other
\* than the one on the asking connection, and a claim event with its word
\* goes to no connection other than the claiming player's.
NoForeignWordsShown ==
    [][ \A s \in Sockets :
          ( /\ mode = "freeforall"
            /\ status' \in {"waiting", "playing"}
            /\ ack'.res.success )
          => /\ (ack'.op = "state" /\ GetGameState(s))
                   => OwnClaimsOnly(s, ack'.res.gameState.claims)
             /\ (ack'.op = "join" /\ \E n \in names : JoinGame(s, n))
                   => \A i \in 1..Len(ack'.res.gameState.claims) :
                         ack'.res.gameState.claims[i].playerId = s
             /\ (ack'.op = "submit" /\ \E w \in RawWords : SubmitWord(s, w))
                   => \A e \in ack'.events.wordClaimed : e.to = s
      ]_vars


\* C35: every entry of the ledger has a timestamp below the duration of the
\* round: no submission handled once the duration has elapsed since the
\* start is accepted.
ClaimsWithinDuration ==
    \A i \in 1..Len(claims) : claims[i].timestamp < duration


\* C36: the playerId of every entry of the ledger is the key of an entry of
\* the player table.
ClaimantsInTable ==
    \A i \in 1..Len(claims) : MapHas(players, claims[i].playerId)


\* C37 (SpecRoom): the player table never has more than
\* MAX_PLAYERS_PER_ROOM entries; a join handled while the session takes joins
\* and the table has that many is refused as full and leaves the table and
\* the host as they were; and a join under the name of a disconnected
\* player from a connection outside the table leaves the size of the table
\* as it was.
RoomNeverOverfull ==
    /\ [](Len(players) <= MAX_PLAYERS_PER_ROOM)
    /\ [][ \A s \in Sockets, n \in names :
             ( /\ ack'.op = "join"
               /\ JoinGame(s, n)
               /\ registered
               /\ status # "ended" )
             => /\ Len(players) >= MAX_PLAYERS_PER_ROOM
                   => /\ ack'.res = Reject(ErrFull)
                      /\ UNCHANGED <<players, hostId>>
                /\ (~MapHas(players, s) /\ reconnectable(n) # {})
                   => Len(players') = Len(players) ]_vars

\* The table has MAX_PLAYERS_PER_ROOM entries and a further join was refused
\* as full.
JoinRefusedAsFull ==
    /\ Len(players) = MAX_PLAYERS_PER_ROOM
    /\ ack.op = "join"
    /\ ack.res = Reject(ErrFull)


\* C38 (SpecSessions): for a connection that has closed, neither session's
\* table has an entry under its id that is marked connected, and it is the
\* host of no session in which another player is connected.
ClosedNowhereConnected ==
    \A s \in Sockets :
        sockState[s] = "closed"
        => /\ MapHas(players, s) => ~MapGet(players, s).connected
           /\ MapHas(otherPlayers, s) => ~MapGet(otherPlayers, s).connected
           /\ hostId = s
                 => ~\E i \in 1..Len(players) :
                        players[i].connected /\ players[i].key # s
           /\ otherHost = s
                 => ~\E i \in 1..Len(otherPlayers) :
                        otherPlayers[i].connected /\ otherPlayers[i].key # s

\* C39 (Spec): a join to an ended session is refused as ended whoever asks
\* and under whatever name, and leaves the player table with its scores,
\* the host and the ledger as they were; a join to a session that is not
\* in the registry is refused as not found.
JoinEndedRefused ==
    [][\A s \in Sockets, n \in names :
          (ack'.op = "join" /\ JoinGame(s, n))
          => /\ (registered /\ status = "ended")
                   => /\ ack'.res = Reject(ErrEnded)
                      /\ UNCHANGED <<players, hostId, claims, playerClaims>>
             /\ ~registered => ack'.res = Reject(ErrNotFound)]_vars

\* An ended session whose table holds a player who left has just refused a
\* join.
LeftPlayerRefusedAfterEnd ==
    /\ registered
    /\ status = "ended"
    /\ ack.op = "join"
    /\ ack.res = Reject(ErrEnded)
    /\ \E i \in 1..Len(players) : ~players[i].connected

\* C40 (SpecRename): the playerName of every announced claim is the
\* playerName of that claim's ledger entry, which is the name of the
\* submitter's entry in the player table, also after the submitter joined
\* again on the same socket under another name.
AnnouncedNameIsLedgerName ==
    ack.op = "submit"
    => \A e \in ack.events.wordClaimed :
          /\ \E i \in 1..Len(claims) :
                /\ e.data.word = IF mode = "exclusive" THEN claims[i].key
                                 ELSE claims[i].word
                /\ claims[i].playerId = e.data.playerId
                /\ claims[i].playerName = e.data.playerName
          /\ MapHas(players, e.data.playerId)
          /\ MapGet(players, e.data.playerId).name = e.data.playerName

=============================================================================
